---- MODULE Spec2Model ----
(***************************************************************************)
(* A model of the YouVersion client library: the two HTTP adapters         *)
(* (core/http.py), the synchronous and the asynchronous facade             *)
(* (core/client.py), the Result type and the two error families.           *)
(*                                                                         *)
(* One call is in flight at a time.  A call is one action: the caller      *)
(* invokes an adapter's get or a facade's endpoint method, the environment *)
(* chooses what the underlying httpx client does with the request (a       *)
(* transport failure or a response), and the outcome the caller observes   *)
(* is recorded in `last`.  Consume is the caller dropping that outcome     *)
(* before its next call.                                                   *)
(*                                                                         *)
(* Spec explores one call on an open client over all the inputs and        *)
(* replies.  LifeSpec explores the life of the facade instances: the       *)
(* objects a constructor allocates (`clients`, `adapters`, `pools`), the   *)
(* scoped-context protocol, close, and calls before and after close.       *)
(*                                                                         *)
(* Python values are encoded so that every field has one type:             *)
(*   - an optional value is a sequence, <<>> for None and <<v>> for v;     *)
(*   - a header value (the text float() parses) is a sequence of           *)
(*     one-character strings; other text is a TLA+ string;                 *)
(*   - a record that is absent is the record of the same shape whose tag   *)
(*     is "none".                                                          *)
(***************************************************************************)
EXTENDS Integers, Sequences, FiniteSets, TLC

VARIABLES
    last,      \* the last operation and its outcome
    clients,   \* the facade instances, in the order of their construction
    adapters,  \* the HTTP adapter objects; clients[i]._http indexes them
    pools      \* the httpx client objects; adapters[a]._client indexes them

vars == <<last, clients, adapters, pools>>

-----------------------------------------------------------------------------
(* Bounds of the model *)

\* longest Retry-After header value the environment sends, in characters
MaxHeaderLen == 2

\* most items in the data array of a paginated body
MaxItems == 2

\* most facade instances constructed
MaxClients == 2

-----------------------------------------------------------------------------
(* Optional values *)

None == <<>>

Some(v) == <<v>>

-----------------------------------------------------------------------------
(* Text: str(int), as the f-strings of client.py format their arguments *)

DigitChar(d) ==
    CASE d = 0 -> "0" [] d = 1 -> "1" [] d = 2 -> "2" [] d = 3 -> "3"
      [] d = 4 -> "4" [] d = 5 -> "5" [] d = 6 -> "6" [] d = 7 -> "7"
      [] d = 8 -> "8" [] d = 9 -> "9"

RECURSIVE NatStr(_)
NatStr(n) == IF n < 10 THEN DigitChar(n) ELSE NatStr(n \div 10) \o DigitChar(n % 10)

\* Python's str() of an int
Str(n) == IF n < 0 THEN "-" \o NatStr(0 - n) ELSE NatStr(n)

-----------------------------------------------------------------------------
(* float(): the characters the environment puts in a Retry-After value are  *)
(* decimal digits and one letter, so a value parses if and only if it is a   *)
(* non-empty run of digits; anything else is a ValueError.                   *)

HeaderChars == {"0", "6", "W"}

DigitValue(c) == CASE c = "0" -> 0 [] c = "6" -> 6

IsDigit(c) == c \in {"0", "6"}

RECURSIVE DecimalValue(_)
DecimalValue(s) ==
    IF s = <<>> THEN 0
    ELSE 10 * DecimalValue(SubSeq(s, 1, Len(s) - 1)) + DigitValue(s[Len(s)])

\* float(s): [ok, value]; ok = FALSE is "ValueError: could not convert string to float"
Float(s) ==
    IF s # <<>> /\ \A i \in 1..Len(s) : IsDigit(s[i])
    THEN [ok |-> TRUE, value |-> DecimalValue(s)]
    ELSE [ok |-> FALSE, value |-> 0]

-----------------------------------------------------------------------------
(* Exceptions.  One record shape for all: the fields a class does not have  *)
(* are None / "".                                                            *)

Exc(type, message) ==
    [type |-> type, message |-> message, retry_after |-> None,
     status_code |-> None, cause |-> ""]

NoExc == Exc("none", "")

\* core/errors.py
YouVersionError == {"NetworkError", "AuthenticationError", "RateLimitError", "ServerError"}

NetworkError(message, cause) == [Exc("NetworkError", message) EXCEPT !.cause = cause]

AuthenticationError(message) == Exc("AuthenticationError", message)

RateLimitError(message, retry_after) ==
    [Exc("RateLimitError", message) EXCEPT !.retry_after = retry_after]

ServerError(message, status_code) ==
    [Exc("ServerError", message) EXCEPT !.status_code = Some(status_code)]

\* exceptions of the interpreter and of the libraries, none a YouVersionError
ValueErrorExc == Exc("ValueError", "could not convert string to float")

AttributeErrorExc(attr) ==
    Exc("AttributeError", "'coroutine' object has no attribute '" \o attr \o "'")

\* getattr(client, name) where the class defines no such name
NoAttributeExc(cls, name) ==
    Exc("AttributeError", "'" \o cls \o "' object has no attribute '" \o name \o "'")

JSONDecodeErrorExc == Exc("JSONDecodeError", "")

PydanticValidationErrorExc == Exc("pydantic.ValidationError", "")

-----------------------------------------------------------------------------
(* JSON bodies and the typed records (bibles/models.py, languages/models.py, *)
(* licenses/models.py).  A JSON object is the set of its keys, one number    *)
(* `val` standing for the values under them, and, under the key "data", an   *)
(* array of items; the values are taken to have the types the schema asks    *)
(* for, so that validation is decided by the keys.                           *)

Item(keys, val) == [keys |-> keys, val |-> val]

Obj(keys, val, data, next_page_token, total_count) ==
    [keys |-> keys, val |-> val, data |-> data,
     next_page_token |-> next_page_token, total_count |-> total_count]

EmptyObj == Obj({}, 0, <<>>, None, None)

\* a body that is not JSON text (for example the empty body)
NotJsonBody == [json |-> FALSE, obj |-> EmptyObj]

JsonBody(obj) == [json |-> TRUE, obj |-> obj]

RecordClasses ==
    {"BibleVersion", "BibleBook", "BibleChapter", "BibleVerse", "BiblePassage",
     "Language", "License", "VerseOfTheDay", "Organization"}

\* fields without a default
Required(cls) ==
    CASE cls = "BibleVersion" -> {"id", "abbreviation", "title", "language_tag"}
      [] cls = "BibleBook" -> {"id", "title", "abbreviation", "canon"}
      [] cls = "BibleChapter" -> {"id", "passage_id", "title"}
      [] cls = "BibleVerse" -> {"id", "passage_id", "title"}
      [] cls = "BiblePassage" -> {"id", "content", "reference"}
      [] cls = "Language" -> {"id", "language", "text_direction"}
      [] cls = "License" ->
            {"id", "name", "version", "organization_id", "html", "yvp_user_id"}
      [] cls = "VerseOfTheDay" -> {"day", "passage_id"}
      [] cls = "Organization" ->
            {"id", "name", "description", "primary_language", "website_url",
             "address"}
      [] cls = "PaginatedResponse" -> {"data"}

\* fields with a default
Optional(cls) ==
    CASE cls = "BibleVersion" -> {"copyright_short", "copyright_long"}
      [] cls = "BibleBook" -> {"full_title", "chapters", "intro"}
      [] cls = "BibleChapter" -> {"verses"}
      [] cls = "BibleVerse" -> {}
      [] cls = "BiblePassage" -> {}
      [] cls = "Language" ->
            {"script", "script_name", "aliases", "display_names", "scripts",
             "variants", "countries", "writing_population", "speaking_population",
             "default_bible_id"}
      [] cls = "License" -> {"bible_ids", "uri", "agreed_dt"}
      [] cls = "VerseOfTheDay" -> {}
      [] cls = "Organization" -> {"parent_organization_id", "email", "phone"}
      [] cls = "PaginatedResponse" -> {"next_page_token", "total_count"}

Fields(cls) == Required(cls) \cup Optional(cls)

\* a typed record: its class, the fields the JSON set (the others hold their
\* defaults; keys the class does not declare are dropped), and its values
Rec(cls, fields_set, val) == [cls |-> cls, fields_set |-> fields_set, val |-> val]

Parsed(cls, fields_set, val, data, next_page_token, total_count) ==
    [cls |-> cls, fields_set |-> fields_set, val |-> val, data |-> data,
     next_page_token |-> next_page_token, total_count |-> total_count]

NoValue == Parsed("none", {}, 0, <<>>, None, None)

\* cls.model_validate(obj) accepts obj
Validates(cls, obj) == Required(cls) \subseteq obj.keys

\* BibleVersion.model_validate(obj) and the like, for an accepted obj
ModelValidate(cls, obj) ==
    Parsed(cls, obj.keys \cap Fields(cls), obj.val, <<>>, None, None)

\* `record.field = new` on a record of class cls whose values are val: the
\* classes declared with frozen=True reject it with pydantic's ValidationError
\* (frozen_instance); the others (Language, License, VerseOfTheDay,
\* Organization) store the new value
Record_setattr(cls, val, field, new) ==
    IF cls \in {"BibleVersion", "BibleBook", "BibleChapter", "BibleVerse",
                "BiblePassage"}
    THEN [exc |-> Exc("pydantic.ValidationError", "Instance is frozen: " \o field),
          val |-> val]
    ELSE [exc |-> NoExc, val |-> new]

\* PaginatedResponse[cls].model_validate(obj) accepts obj
ValidatesPaginated(cls, obj) ==
    /\ Required("PaginatedResponse") \subseteq obj.keys
    /\ \A i \in 1..Len(obj.data) : Validates(cls, obj.data[i])

\* model_validate that reads data and leaves the other fields at their defaults
ModelValidatePaginated_data_only(cls, obj) ==
    Parsed("PaginatedResponse", obj.keys \cap Fields("PaginatedResponse"), obj.val,
           [i \in 1..Len(obj.data) |->
                Rec(cls, obj.data[i].keys \cap Fields(cls), obj.data[i].val)],
           None, None)

\* PaginatedResponse[cls].model_validate(obj), for an accepted obj
ModelValidatePaginated(cls, obj) ==
    Parsed("PaginatedResponse", obj.keys \cap Fields("PaginatedResponse"), obj.val,
           [i \in 1..Len(obj.data) |->
                Rec(cls, obj.data[i].keys \cap Fields(cls), obj.data[i].val)],
           IF "next_page_token" \in obj.keys THEN obj.next_page_token ELSE None,
           IF "total_count" \in obj.keys THEN obj.total_count ELSE None)

-----------------------------------------------------------------------------
(* Result and the domain errors (core/result.py, core/domain_errors.py) *)

DomainError(class, resource, identifier, message, field, reason) ==
    [class |-> class, resource |-> resource, identifier |-> identifier,
     message |-> message, field |-> field, reason |-> reason]

NoError == DomainError("none", "", "", "", "", "")

NotFoundError(resource, identifier, message) ==
    DomainError("NotFoundError", resource, identifier, message, "", "")

ValidationError(field, reason) ==
    DomainError("ValidationError", "", "", "", field, reason)

\* the Literal of NotFoundError.resource
NotFoundResources ==
    {"version", "book", "chapter", "verse", "passage", "language", "highlight"}

Ok(value) == [tag |-> "Ok", value |-> value, error |-> NoError]

Err(error) == [tag |-> "Err", value |-> NoValue, error |-> error]

NoResult == [tag |-> "none", value |-> NoValue, error |-> NoError]

\* `result.value = v` / `result.error = v` on a dataclass that is not frozen
Result_setattr_unfrozen(result, name, donor) ==
    [exc |-> NoExc,
     result |-> IF name = "value" THEN [result EXCEPT !.value = donor.value]
                ELSE [result EXCEPT !.error = donor.error]]

\* `result.value = v` / `result.error = v`, v the attribute of the same name
\* of donor: @dataclass(frozen=True, slots=True) makes __setattr__ raise
\* FrozenInstanceError, a subclass of AttributeError, and store nothing
Result_setattr(result, name, donor) ==
    [exc |-> Exc("FrozenInstanceError", "cannot assign to field '" \o name \o "'"),
     result |-> result]

is_ok(result) == result.tag = "Ok"

is_err(result) == result.tag = "Err"

-----------------------------------------------------------------------------
(* Responses and what the underlying httpx client does with a request *)

HeaderNames == {"Retry-After"}

\* response.headers: each header absent (None) or present with its value
Headers(retry_after) == [n \in HeaderNames |-> retry_after]

\* response.headers.get(name)
HeadersGet(headers, name) == headers[name]

Response(status_code, headers, body) ==
    [status_code |-> status_code, headers |-> headers, body |-> body]

NoResponse == Response(0, Headers(None), NotJsonBody)

\* the httpx exceptions the environment raises, each with its base classes
HttpxErrors == {"ReadTimeout", "ConnectTimeout", "ConnectError", "ReadError"}

Bases(e) ==
    CASE e = "ReadTimeout" -> {"ReadTimeout", "TimeoutException", "TransportError", "RequestError"}
      [] e = "ConnectTimeout" -> {"ConnectTimeout", "TimeoutException", "TransportError", "RequestError"}
      [] e = "ConnectError" -> {"ConnectError", "NetworkError", "TransportError", "RequestError"}
      [] e = "ReadError" -> {"ReadError", "NetworkError", "TransportError", "RequestError"}
      [] e = "RuntimeError" -> {"RuntimeError"}

\* what self._client.get(path, params=params) does: raises error, or returns response
TransportError(error) == [kind |-> "error", error |-> error, response |-> NoResponse]

TransportResponse(response) == [kind |-> "response", error |-> "", response |-> response]

-----------------------------------------------------------------------------
(* core/http.py.  The outcome of running get's body: it raises exc or        *)
(* returns response; `sent` says the underlying client was asked to send the *)
(* request, `checked` that _check_error_status ran.                          *)

Raised(exc, sent, checked) ==
    [kind |-> "raise", exc |-> exc, response |-> NoResponse,
     sent |-> sent, checked |-> checked]

Returned(response) ==
    [kind |-> "response", exc |-> NoExc, response |-> response,
     sent |-> TRUE, checked |-> TRUE]

\* the object an `async def` hands back when it is called and not awaited:
\* its body has not run
Coroutine ==
    [kind |-> "coroutine", exc |-> NoExc, response |-> NoResponse,
     sent |-> FALSE, checked |-> FALSE]

\* _check_error_status with `>= 400` for `>= 500`
Async_check_error_status_ge400(response) ==
    IF response.status_code = 401
    THEN AuthenticationError("Invalid or missing API key")
    ELSE IF response.status_code = 429
    THEN LET retry_after == HeadersGet(response.headers, "Retry-After")
         IN  IF retry_after # None /\ retry_after[1] # <<>>
             THEN IF Float(retry_after[1]).ok
                  THEN RateLimitError("Rate limit exceeded",
                                      Some(Float(retry_after[1]).value))
                  ELSE ValueErrorExc
             ELSE RateLimitError("Rate limit exceeded", None)
    ELSE IF response.status_code >= 400
    THEN ServerError("Server error: " \o Str(response.status_code),
                     response.status_code)
    ELSE NoExc

\* _check_error_status without its 401 branch
Async_check_error_status_no401(response) ==
    IF response.status_code = 429
    THEN LET retry_after == HeadersGet(response.headers, "Retry-After")
         IN  IF retry_after # None /\ retry_after[1] # <<>>
             THEN IF Float(retry_after[1]).ok
                  THEN RateLimitError("Rate limit exceeded",
                                      Some(Float(retry_after[1]).value))
                  ELSE ValueErrorExc
             ELSE RateLimitError("Rate limit exceeded", None)
    ELSE IF response.status_code >= 500
    THEN ServerError("Server error: " \o Str(response.status_code),
                     response.status_code)
    ELSE NoExc

\* AsyncHTTPAdapter._check_error_status: the exception it raises, NoExc when it
\* returns
Async_check_error_status(response) ==
    IF response.status_code = 401
    THEN AuthenticationError("Invalid or missing API key")
    ELSE IF response.status_code = 429
    THEN LET retry_after == HeadersGet(response.headers, "Retry-After")
         IN  IF retry_after # None /\ retry_after[1] # <<>>
             THEN IF Float(retry_after[1]).ok
                  THEN RateLimitError("Rate limit exceeded",
                                      Some(Float(retry_after[1]).value))
                  ELSE ValueErrorExc
             ELSE RateLimitError("Rate limit exceeded", None)
    ELSE IF response.status_code >= 500
    THEN ServerError("Server error: " \o Str(response.status_code),
                     response.status_code)
    ELSE NoExc

\* AsyncHTTPAdapter.get, awaited
Async_get(transport) ==
    IF transport.kind = "error" /\ "TimeoutException" \in Bases(transport.error)
    THEN Raised(NetworkError("Request timed out: " \o transport.error, transport.error),
                TRUE, FALSE)
    ELSE IF transport.kind = "error" /\ "ConnectError" \in Bases(transport.error)
    THEN Raised(NetworkError("Connection failed: " \o transport.error, transport.error),
                TRUE, FALSE)
    ELSE IF transport.kind = "error" /\ "RequestError" \in Bases(transport.error)
    THEN Raised(NetworkError("Request failed: " \o transport.error, transport.error),
                TRUE, FALSE)
    ELSE IF transport.kind = "error"
    THEN Raised(Exc(transport.error, ""), TRUE, FALSE)
    ELSE LET exc == Async_check_error_status(transport.response)
         IN  IF exc.type # "none" THEN Raised(exc, TRUE, TRUE)
             ELSE Returned(transport.response)

\* _check_error_status with `> 500` for `>= 500`
Sync_check_error_status_gt500(response) ==
    IF response.status_code = 401
    THEN AuthenticationError("Invalid or missing API key")
    ELSE IF response.status_code = 429
    THEN LET retry_after == HeadersGet(response.headers, "Retry-After")
         IN  IF retry_after # None /\ retry_after[1] # <<>>
             THEN IF Float(retry_after[1]).ok
                  THEN RateLimitError("Rate limit exceeded",
                                      Some(Float(retry_after[1]).value))
                  ELSE ValueErrorExc
             ELSE RateLimitError("Rate limit exceeded", None)
    ELSE IF response.status_code > 500
    THEN ServerError("Server error: " \o Str(response.status_code),
                     response.status_code)
    ELSE NoExc

\* SyncHTTPAdapter._check_error_status
Sync_check_error_status(response) ==
    IF response.status_code = 401
    THEN AuthenticationError("Invalid or missing API key")
    ELSE IF response.status_code = 429
    THEN LET retry_after == HeadersGet(response.headers, "Retry-After")
         IN  IF retry_after # None /\ retry_after[1] # <<>>
             THEN IF Float(retry_after[1]).ok
                  THEN RateLimitError("Rate limit exceeded",
                                      Some(Float(retry_after[1]).value))
                  ELSE ValueErrorExc
             ELSE RateLimitError("Rate limit exceeded", None)
    ELSE IF response.status_code >= 500
    THEN ServerError("Server error: " \o Str(response.status_code),
                     response.status_code)
    ELSE NoExc

\* get without its `except httpx.RequestError` clause
Sync_get_no_request_error(transport) ==
    IF transport.kind = "error" /\ "TimeoutException" \in Bases(transport.error)
    THEN Raised(NetworkError("Request timed out: " \o transport.error, transport.error),
                TRUE, FALSE)
    ELSE IF transport.kind = "error" /\ "ConnectError" \in Bases(transport.error)
    THEN Raised(NetworkError("Connection failed: " \o transport.error, transport.error),
                TRUE, FALSE)
    ELSE IF transport.kind = "error"
    THEN Raised(Exc(transport.error, ""), TRUE, FALSE)
    ELSE LET exc == Sync_check_error_status(transport.response)
         IN  IF exc.type # "none" THEN Raised(exc, TRUE, TRUE)
             ELSE Returned(transport.response)

\* SyncHTTPAdapter.get, awaited: the body of the coroutine
Sync_get(transport) ==
    IF transport.kind = "error" /\ "TimeoutException" \in Bases(transport.error)
    THEN Raised(NetworkError("Request timed out: " \o transport.error, transport.error),
                TRUE, FALSE)
    ELSE IF transport.kind = "error" /\ "ConnectError" \in Bases(transport.error)
    THEN Raised(NetworkError("Connection failed: " \o transport.error, transport.error),
                TRUE, FALSE)
    ELSE IF transport.kind = "error" /\ "RequestError" \in Bases(transport.error)
    THEN Raised(NetworkError("Request failed: " \o transport.error, transport.error),
                TRUE, FALSE)
    ELSE IF transport.kind = "error"
    THEN Raised(Exc(transport.error, ""), TRUE, FALSE)
    ELSE LET exc == Sync_check_error_status(transport.response)
         IN  IF exc.type # "none" THEN Raised(exc, TRUE, TRUE)
             ELSE Returned(transport.response)

\* SyncHTTPAdapter.get, called: get is declared `async def`, so the call
\* evaluates to a coroutine object and nothing of its body runs
Sync_get_call(transport) == Coroutine

-----------------------------------------------------------------------------
(* core/client.py: what an endpoint method does with the value bound to      *)
(* `response`.  An outcome is what the caller observes: the method raises    *)
(* exc or returns result; request is the (path, params) handed to            *)
(* self._http.get.                                                           *)

\* params as they go on the wire: None, or the (key, text) pairs in insertion
\* order, an int value in its str() form
Request(path, params) == [path |-> path, params |-> params]

NoRequest == Request("", None)

Args(bible_id, book, chapter, verse, usfm, language_id) ==
    [bible_id |-> bible_id, book |-> book, chapter |-> chapter, verse |-> verse,
     usfm |-> usfm, language_id |-> language_id,
     language_ranges |-> "", license_id |-> None,
     format |-> "text", include_headings |-> FALSE, include_notes |-> FALSE,
     country |-> None, page_size |-> None, page_token |-> None,
     developer_id |-> "", all_available |-> FALSE,
     day |-> 0, organization_id |-> ""]

NoArgs == Args(0, "", 0, 0, "", "")

Outcome(kind, exc, result, response, request, got) ==
    [kind |-> kind, exc |-> exc, result |-> result, response |-> response,
     request |-> request, sent |-> got.sent, checked |-> got.checked]

MethodRaises(exc, request, got) ==
    Outcome("raise", exc, NoResult, NoResponse, request, got)

MethodReturns(result, request, got) ==
    Outcome("return", NoExc, result, NoResponse, request, got)

\* `response` holds no httpx.Response: the awaited get raised, or the value is
\* a coroutine object
Unusable(got) == got.kind # "response"

\* the awaited get's exception propagates; on a coroutine object the method's
\* first attribute access, attr (status_code, or json where no status is
\* inspected), is an AttributeError
Fails(attr, request, got) ==
    IF got.kind = "raise" THEN MethodRaises(got.exc, request, got)
    ELSE MethodRaises(AttributeErrorExc(attr), request, got)

\* Ok(cls.model_validate(response.json()))
OkValidated(cls, request, got) ==
    IF ~got.response.body.json THEN MethodRaises(JSONDecodeErrorExc, request, got)
    ELSE IF ~Validates(cls, got.response.body.obj)
    THEN MethodRaises(PydanticValidationErrorExc, request, got)
    ELSE MethodReturns(Ok(ModelValidate(cls, got.response.body.obj)), request, got)

\* data = response.json(); Ok(PaginatedResponse[cls].model_validate(data))
OkValidatedPaginated(cls, request, got) ==
    IF ~got.response.body.json THEN MethodRaises(JSONDecodeErrorExc, request, got)
    ELSE IF ~ValidatesPaginated(cls, got.response.body.obj)
    THEN MethodRaises(PydanticValidationErrorExc, request, got)
    ELSE MethodReturns(Ok(ModelValidatePaginated(cls, got.response.body.obj)),
                       request, got)

\* str(True).lower(), str(False).lower()
BoolLower(b) == IF b THEN "true" ELSE "false"

-----------------------------------------------------------------------------
(* core/client.py: YouVersionClient *)

\* YouVersionClient.get_versions
YouVersionClient_get_versions(transport, args) ==
    LET request ==
            Request("/v1/bibles",
                    Some(<< <<"language_ranges[]", args.language_ranges>> >>
                      \o (IF args.license_id # None
                          THEN << <<"license_id", Str(args.license_id[1])>> >>
                          ELSE <<>>)))
        response == Sync_get_call(transport)  \* self._http.get(...): not awaited
    IN  IF Unusable(response) THEN Fails("status_code", request, response)
        ELSE IF response.response.status_code = 400
        THEN MethodReturns(
                Err(ValidationError("language_ranges", "Invalid language range format")),
                request, response)
        ELSE OkValidatedPaginated("BibleVersion", request, response)

\* YouVersionClient.get_version
YouVersionClient_get_version(transport, args) ==
    LET request ==
            Request("/v1/bibles/" \o Str(args.bible_id),
                    None)
        response == Sync_get_call(transport)  \* self._http.get(...): not awaited
    IN  IF Unusable(response) THEN Fails("status_code", request, response)
        ELSE IF response.response.status_code = 404
        THEN MethodReturns(
                Err(NotFoundError("version", Str(args.bible_id),
                  "Bible version " \o Str(args.bible_id) \o " not found")),
                request, response)
        ELSE OkValidated("BibleVersion", request, response)

\* YouVersionClient.get_books
YouVersionClient_get_books(transport, args) ==
    LET request ==
            Request("/v1/bibles/" \o Str(args.bible_id) \o "/books",
                    None)
        response == Sync_get_call(transport)  \* self._http.get(...): not awaited
    IN  IF Unusable(response) THEN Fails("status_code", request, response)
        ELSE IF response.response.status_code = 404
        THEN MethodReturns(
                Err(NotFoundError("version", Str(args.bible_id),
                  "Bible version " \o Str(args.bible_id) \o " not found")),
                request, response)
        ELSE OkValidatedPaginated("BibleBook", request, response)

\* YouVersionClient.get_book
YouVersionClient_get_book(transport, args) ==
    LET request ==
            Request("/v1/bibles/" \o Str(args.bible_id) \o "/books/" \o args.book,
                    None)
        response == Sync_get_call(transport)  \* self._http.get(...): not awaited
    IN  IF Unusable(response) THEN Fails("status_code", request, response)
        ELSE IF response.response.status_code = 404
        THEN MethodReturns(
                Err(NotFoundError("book", args.book,
                  "Book " \o args.book \o " not found in version " \o Str(args.bible_id))),
                request, response)
        ELSE OkValidated("BibleBook", request, response)

\* YouVersionClient.get_chapters
YouVersionClient_get_chapters(transport, args) ==
    LET request ==
            Request("/v1/bibles/" \o Str(args.bible_id) \o "/books/" \o args.book \o "/chapters",
                    None)
        response == Sync_get_call(transport)  \* self._http.get(...): not awaited
    IN  IF Unusable(response) THEN Fails("status_code", request, response)
        ELSE IF response.response.status_code = 404
        THEN MethodReturns(
                Err(NotFoundError("book", args.book, "Book " \o args.book \o " not found")),
                request, response)
        ELSE OkValidatedPaginated("BibleChapter", request, response)

\* YouVersionClient.get_chapter
YouVersionClient_get_chapter(transport, args) ==
    LET request ==
            Request("/v1/bibles/" \o Str(args.bible_id) \o "/books/" \o args.book \o "/chapters/"
                      \o Str(args.chapter),
                    None)
        response == Sync_get_call(transport)  \* self._http.get(...): not awaited
    IN  IF Unusable(response) THEN Fails("status_code", request, response)
        ELSE IF response.response.status_code = 404
        THEN MethodReturns(
                Err(NotFoundError("chapter", args.book \o "." \o Str(args.chapter),
                  "Chapter " \o args.book \o " " \o Str(args.chapter) \o " not found")),
                request, response)
        ELSE OkValidated("BibleChapter", request, response)

\* YouVersionClient.get_verses
YouVersionClient_get_verses(transport, args) ==
    LET request ==
            Request("/v1/bibles/" \o Str(args.bible_id) \o "/books/" \o args.book \o "/chapters/"
                      \o Str(args.chapter) \o "/verses",
                    None)
        response == Sync_get_call(transport)  \* self._http.get(...): not awaited
    IN  IF Unusable(response) THEN Fails("status_code", request, response)
        ELSE IF response.response.status_code = 404
        THEN MethodReturns(
                Err(NotFoundError("chapter", args.book \o "." \o Str(args.chapter),
                  "Chapter " \o args.book \o " " \o Str(args.chapter) \o " not found")),
                request, response)
        ELSE OkValidatedPaginated("BibleVerse", request, response)

\* YouVersionClient.get_verse
YouVersionClient_get_verse(transport, args) ==
    LET request ==
            Request("/v1/bibles/" \o Str(args.bible_id) \o "/books/" \o args.book \o "/chapters/"
                      \o Str(args.chapter) \o "/verses/" \o Str(args.verse),
                    None)
        response == Sync_get_call(transport)  \* self._http.get(...): not awaited
    IN  IF Unusable(response) THEN Fails("status_code", request, response)
        ELSE IF response.response.status_code = 404
        THEN MethodReturns(
                Err(NotFoundError("verse", args.book \o "." \o Str(args.chapter) \o "." \o Str(args.verse),
                  "Verse " \o args.book \o " " \o Str(args.chapter) \o ":" \o Str(args.verse)
                  \o " not found")),
                request, response)
        ELSE OkValidated("BibleVerse", request, response)

\* YouVersionClient.get_passage
YouVersionClient_get_passage(transport, args) ==
    LET request ==
            Request("/v1/bibles/" \o Str(args.bible_id) \o "/passages/" \o args.usfm,
                    Some(<< <<"format", args.format>>,
                         <<"include_headings", BoolLower(args.include_headings)>>,
                         <<"include_notes", BoolLower(args.include_notes)>> >>))
        response == Sync_get_call(transport)  \* self._http.get(...): not awaited
    IN  IF Unusable(response) THEN Fails("status_code", request, response)
        ELSE IF response.response.status_code = 404
        THEN MethodReturns(
                Err(NotFoundError("passage", args.usfm,
                  "Passage " \o args.usfm \o " not found")),
                request, response)
        ELSE IF response.response.status_code = 400
        THEN MethodReturns(
                Err(ValidationError("usfm", "Invalid USFM format")),
                request, response)
        ELSE OkValidated("BiblePassage", request, response)

\* YouVersionClient.get_languages
YouVersionClient_get_languages(transport, args) ==
    LET params ==
            (IF args.country # None
             THEN << <<"country", args.country[1]>> >> ELSE <<>>)
            \o (IF args.page_size # None
                THEN << <<"page_size", Str(args.page_size[1])>> >> ELSE <<>>)
            \o (IF args.page_token # None
                THEN << <<"page_token", args.page_token[1]>> >> ELSE <<>>)
        request == Request("/v1/languages", IF params # <<>> THEN Some(params) ELSE None)
        response == Sync_get_call(transport)  \* self._http.get(...): not awaited
    IN  IF Unusable(response) THEN Fails("json", request, response)
        ELSE OkValidatedPaginated("Language", request, response)

\* YouVersionClient.get_language
YouVersionClient_get_language(transport, args) ==
    LET request ==
            Request("/v1/languages/" \o args.language_id,
                    None)
        response == Sync_get_call(transport)  \* self._http.get(...): not awaited
    IN  IF Unusable(response) THEN Fails("status_code", request, response)
        ELSE IF response.response.status_code = 404
        THEN MethodReturns(
                Err(NotFoundError("language", args.language_id,
                  "Language " \o args.language_id \o " not found")),
                request, response)
        ELSE OkValidated("Language", request, response)

\* YouVersionClient.get_licenses
YouVersionClient_get_licenses(transport, args) ==
    LET request ==
            Request("/v1/licenses",
                    Some(<< <<"bible_id", Str(args.bible_id)>>,
                         <<"developer_id", args.developer_id>> >>
                      \o (IF args.all_available
                          THEN << <<"all_available", "true">> >> ELSE <<>>)))
        response == Sync_get_call(transport)  \* self._http.get(...): not awaited
    IN  IF Unusable(response) THEN Fails("json", request, response)
        ELSE OkValidatedPaginated("License", request, response)

-----------------------------------------------------------------------------
(* core/client.py: AsyncYouVersionClient *)

\* AsyncYouVersionClient.get_versions
AsyncYouVersionClient_get_versions(transport, args) ==
    LET request ==
            Request("/v1/bibles",
                    Some(<< <<"language_ranges[]", args.language_ranges>> >>
                      \o (IF args.license_id # None
                          THEN << <<"license_id", Str(args.license_id[1])>> >>
                          ELSE <<>>)))
        response == Async_get(transport)  \* await self._http.get(...)
    IN  IF Unusable(response) THEN Fails("status_code", request, response)
        ELSE IF response.response.status_code = 400
        THEN MethodReturns(
                Err(ValidationError("language_ranges", "Invalid language range format")),
                request, response)
        ELSE OkValidatedPaginated("BibleVersion", request, response)

\* AsyncYouVersionClient.get_version
AsyncYouVersionClient_get_version(transport, args) ==
    LET request ==
            Request("/v1/bibles/" \o Str(args.bible_id),
                    None)
        response == Async_get(transport)  \* await self._http.get(...)
    IN  IF Unusable(response) THEN Fails("status_code", request, response)
        ELSE IF response.response.status_code = 404
        THEN MethodReturns(
                Err(NotFoundError("version", Str(args.bible_id),
                  "Bible version " \o Str(args.bible_id) \o " not found")),
                request, response)
        ELSE OkValidated("BibleVersion", request, response)

\* AsyncYouVersionClient.get_books
AsyncYouVersionClient_get_books(transport, args) ==
    LET request ==
            Request("/v1/bibles/" \o Str(args.bible_id) \o "/books",
                    None)
        response == Async_get(transport)  \* await self._http.get(...)
    IN  IF Unusable(response) THEN Fails("status_code", request, response)
        ELSE IF response.response.status_code = 404
        THEN MethodReturns(
                Err(NotFoundError("version", Str(args.bible_id),
                  "Bible version " \o Str(args.bible_id) \o " not found")),
                request, response)
        ELSE OkValidatedPaginated("BibleBook", request, response)

\* AsyncYouVersionClient.get_book
AsyncYouVersionClient_get_book(transport, args) ==
    LET request ==
            Request("/v1/bibles/" \o Str(args.bible_id) \o "/books/" \o args.book,
                    None)
        response == Async_get(transport)  \* await self._http.get(...)
    IN  IF Unusable(response) THEN Fails("status_code", request, response)
        ELSE IF response.response.status_code = 404
        THEN MethodReturns(
                Err(NotFoundError("book", args.book,
                  "Book " \o args.book \o " not found in version " \o Str(args.bible_id))),
                request, response)
        ELSE OkValidated("BibleBook", request, response)

\* AsyncYouVersionClient.get_chapters
AsyncYouVersionClient_get_chapters(transport, args) ==
    LET request ==
            Request("/v1/bibles/" \o Str(args.bible_id) \o "/books/" \o args.book \o "/chapters",
                    None)
        response == Async_get(transport)  \* await self._http.get(...)
    IN  IF Unusable(response) THEN Fails("status_code", request, response)
        ELSE IF response.response.status_code = 404
        THEN MethodReturns(
                Err(NotFoundError("book", args.book, "Book " \o args.book \o " not found")),
                request, response)
        ELSE OkValidatedPaginated("BibleChapter", request, response)

\* get_chapter reporting the book alone as the identifier
AsyncYouVersionClient_get_chapter_book_only(transport, args) ==
    LET request ==
            Request("/v1/bibles/" \o Str(args.bible_id) \o "/books/" \o args.book \o "/chapters/"
                      \o Str(args.chapter),
                    None)
        response == Async_get(transport)
    IN  IF Unusable(response) THEN Fails("status_code", request, response)
        ELSE IF response.response.status_code = 404
        THEN MethodReturns(
                Err(NotFoundError("chapter", args.book,
                  "Chapter " \o args.book \o " " \o Str(args.chapter) \o " not found")),
                request, response)
        ELSE OkValidated("BibleChapter", request, response)

\* AsyncYouVersionClient.get_chapter
AsyncYouVersionClient_get_chapter(transport, args) ==
    LET request ==
            Request("/v1/bibles/" \o Str(args.bible_id) \o "/books/" \o args.book \o "/chapters/"
                      \o Str(args.chapter),
                    None)
        response == Async_get(transport)  \* await self._http.get(...)
    IN  IF Unusable(response) THEN Fails("status_code", request, response)
        ELSE IF response.response.status_code = 404
        THEN MethodReturns(
                Err(NotFoundError("chapter", args.book \o "." \o Str(args.chapter),
                  "Chapter " \o args.book \o " " \o Str(args.chapter) \o " not found")),
                request, response)
        ELSE OkValidated("BibleChapter", request, response)

\* AsyncYouVersionClient.get_verses
AsyncYouVersionClient_get_verses(transport, args) ==
    LET request ==
            Request("/v1/bibles/" \o Str(args.bible_id) \o "/books/" \o args.book \o "/chapters/"
                      \o Str(args.chapter) \o "/verses",
                    None)
        response == Async_get(transport)  \* await self._http.get(...)
    IN  IF Unusable(response) THEN Fails("status_code", request, response)
        ELSE IF response.response.status_code = 404
        THEN MethodReturns(
                Err(NotFoundError("chapter", args.book \o "." \o Str(args.chapter),
                  "Chapter " \o args.book \o " " \o Str(args.chapter) \o " not found")),
                request, response)
        ELSE OkValidatedPaginated("BibleVerse", request, response)

\* AsyncYouVersionClient.get_verse
AsyncYouVersionClient_get_verse(transport, args) ==
    LET request ==
            Request("/v1/bibles/" \o Str(args.bible_id) \o "/books/" \o args.book \o "/chapters/"
                      \o Str(args.chapter) \o "/verses/" \o Str(args.verse),
                    None)
        response == Async_get(transport)  \* await self._http.get(...)
    IN  IF Unusable(response) THEN Fails("status_code", request, response)
        ELSE IF response.response.status_code = 404
        THEN MethodReturns(
                Err(NotFoundError("verse", args.book \o "." \o Str(args.chapter) \o "." \o Str(args.verse),
                  "Verse " \o args.book \o " " \o Str(args.chapter) \o ":" \o Str(args.verse)
                  \o " not found")),
                request, response)
        ELSE OkValidated("BibleVerse", request, response)

\* AsyncYouVersionClient.get_passage
AsyncYouVersionClient_get_passage(transport, args) ==
    LET request ==
            Request("/v1/bibles/" \o Str(args.bible_id) \o "/passages/" \o args.usfm,
                    Some(<< <<"format", args.format>>,
                         <<"include_headings", BoolLower(args.include_headings)>>,
                         <<"include_notes", BoolLower(args.include_notes)>> >>))
        response == Async_get(transport)  \* await self._http.get(...)
    IN  IF Unusable(response) THEN Fails("status_code", request, response)
        ELSE IF response.response.status_code = 404
        THEN MethodReturns(
                Err(NotFoundError("passage", args.usfm,
                  "Passage " \o args.usfm \o " not found")),
                request, response)
        ELSE IF response.response.status_code = 400
        THEN MethodReturns(
                Err(ValidationError("usfm", "Invalid USFM format")),
                request, response)
        ELSE OkValidated("BiblePassage", request, response)

\* get_languages passing its query mapping even when it is empty
AsyncYouVersionClient_get_languages_empty_query(transport, args) ==
    LET params ==
            (IF args.country # None
             THEN << <<"country", args.country[1]>> >> ELSE <<>>)
            \o (IF args.page_size # None
                THEN << <<"page_size", Str(args.page_size[1])>> >> ELSE <<>>)
            \o (IF args.page_token # None
                THEN << <<"page_token", args.page_token[1]>> >> ELSE <<>>)
        request == Request("/v1/languages", Some(params))
        response == Async_get(transport)  \* await self._http.get(...)
    IN  IF Unusable(response) THEN Fails("json", request, response)
        ELSE OkValidatedPaginated("Language", request, response)

\* AsyncYouVersionClient.get_languages
AsyncYouVersionClient_get_languages(transport, args) ==
    LET params ==
            (IF args.country # None
             THEN << <<"country", args.country[1]>> >> ELSE <<>>)
            \o (IF args.page_size # None
                THEN << <<"page_size", Str(args.page_size[1])>> >> ELSE <<>>)
            \o (IF args.page_token # None
                THEN << <<"page_token", args.page_token[1]>> >> ELSE <<>>)
        request == Request("/v1/languages", IF params # <<>> THEN Some(params) ELSE None)
        response == Async_get(transport)  \* await self._http.get(...)
    IN  IF Unusable(response) THEN Fails("json", request, response)
        ELSE OkValidatedPaginated("Language", request, response)

\* AsyncYouVersionClient.get_language
AsyncYouVersionClient_get_language(transport, args) ==
    LET request ==
            Request("/v1/languages/" \o args.language_id,
                    None)
        response == Async_get(transport)  \* await self._http.get(...)
    IN  IF Unusable(response) THEN Fails("status_code", request, response)
        ELSE IF response.response.status_code = 404
        THEN MethodReturns(
                Err(NotFoundError("language", args.language_id,
                  "Language " \o args.language_id \o " not found")),
                request, response)
        ELSE OkValidated("Language", request, response)

\* AsyncYouVersionClient.get_licenses
AsyncYouVersionClient_get_licenses(transport, args) ==
    LET request ==
            Request("/v1/licenses",
                    Some(<< <<"bible_id", Str(args.bible_id)>>,
                         <<"developer_id", args.developer_id>> >>
                      \o (IF args.all_available
                          THEN << <<"all_available", "true">> >> ELSE <<>>)))
        response == Async_get(transport)  \* await self._http.get(...)
    IN  IF Unusable(response) THEN Fails("json", request, response)
        ELSE OkValidatedPaginated("License", request, response)

-----------------------------------------------------------------------------
(* bibles/api.py: BibleAPIMixin, whose method _<name> takes the adapter as   *)
(* `http` and is otherwise the code of YouVersionClient.<name>; the adapter  *)
(* passed is a SyncHTTPAdapter, as annotated                                  *)

\* BibleAPIMixin._get_versions
BibleAPIMixin_get_versions(transport, args) ==
    LET request ==
            Request("/v1/bibles",
                    Some(<< <<"language_ranges[]", args.language_ranges>> >>
                      \o (IF args.license_id # None
                          THEN << <<"license_id", Str(args.license_id[1])>> >>
                          ELSE <<>>)))
        response == Sync_get_call(transport)  \* http.get(...): not awaited
    IN  IF Unusable(response) THEN Fails("status_code", request, response)
        ELSE IF response.response.status_code = 400
        THEN MethodReturns(
                Err(ValidationError("language_ranges", "Invalid language range format")),
                request, response)
        ELSE OkValidatedPaginated("BibleVersion", request, response)

\* BibleAPIMixin._get_version
BibleAPIMixin_get_version(transport, args) ==
    LET request ==
            Request("/v1/bibles/" \o Str(args.bible_id),
                    None)
        response == Sync_get_call(transport)  \* http.get(...): not awaited
    IN  IF Unusable(response) THEN Fails("status_code", request, response)
        ELSE IF response.response.status_code = 404
        THEN MethodReturns(
                Err(NotFoundError("version", Str(args.bible_id),
                  "Bible version " \o Str(args.bible_id) \o " not found")),
                request, response)
        ELSE OkValidated("BibleVersion", request, response)

\* BibleAPIMixin._get_books
BibleAPIMixin_get_books(transport, args) ==
    LET request ==
            Request("/v1/bibles/" \o Str(args.bible_id) \o "/books",
                    None)
        response == Sync_get_call(transport)  \* http.get(...): not awaited
    IN  IF Unusable(response) THEN Fails("status_code", request, response)
        ELSE IF response.response.status_code = 404
        THEN MethodReturns(
                Err(NotFoundError("version", Str(args.bible_id),
                  "Bible version " \o Str(args.bible_id) \o " not found")),
                request, response)
        ELSE OkValidatedPaginated("BibleBook", request, response)

\* BibleAPIMixin._get_book
BibleAPIMixin_get_book(transport, args) ==
    LET request ==
            Request("/v1/bibles/" \o Str(args.bible_id) \o "/books/" \o args.book,
                    None)
        response == Sync_get_call(transport)  \* http.get(...): not awaited
    IN  IF Unusable(response) THEN Fails("status_code", request, response)
        ELSE IF response.response.status_code = 404
        THEN MethodReturns(
                Err(NotFoundError("book", args.book,
                  "Book " \o args.book \o " not found in version " \o Str(args.bible_id))),
                request, response)
        ELSE OkValidated("BibleBook", request, response)

\* BibleAPIMixin._get_chapters
BibleAPIMixin_get_chapters(transport, args) ==
    LET request ==
            Request("/v1/bibles/" \o Str(args.bible_id) \o "/books/" \o args.book \o "/chapters",
                    None)
        response == Sync_get_call(transport)  \* http.get(...): not awaited
    IN  IF Unusable(response) THEN Fails("status_code", request, response)
        ELSE IF response.response.status_code = 404
        THEN MethodReturns(
                Err(NotFoundError("book", args.book, "Book " \o args.book \o " not found")),
                request, response)
        ELSE OkValidatedPaginated("BibleChapter", request, response)

\* BibleAPIMixin._get_chapter
BibleAPIMixin_get_chapter(transport, args) ==
    LET request ==
            Request("/v1/bibles/" \o Str(args.bible_id) \o "/books/" \o args.book \o "/chapters/"
                      \o Str(args.chapter),
                    None)
        response == Sync_get_call(transport)  \* http.get(...): not awaited
    IN  IF Unusable(response) THEN Fails("status_code", request, response)
        ELSE IF response.response.status_code = 404
        THEN MethodReturns(
                Err(NotFoundError("chapter", args.book \o "." \o Str(args.chapter),
                  "Chapter " \o args.book \o " " \o Str(args.chapter) \o " not found")),
                request, response)
        ELSE OkValidated("BibleChapter", request, response)

\* BibleAPIMixin._get_verses
BibleAPIMixin_get_verses(transport, args) ==
    LET request ==
            Request("/v1/bibles/" \o Str(args.bible_id) \o "/books/" \o args.book \o "/chapters/"
                      \o Str(args.chapter) \o "/verses",
                    None)
        response == Sync_get_call(transport)  \* http.get(...): not awaited
    IN  IF Unusable(response) THEN Fails("status_code", request, response)
        ELSE IF response.response.status_code = 404
        THEN MethodReturns(
                Err(NotFoundError("chapter", args.book \o "." \o Str(args.chapter),
                  "Chapter " \o args.book \o " " \o Str(args.chapter) \o " not found")),
                request, response)
        ELSE OkValidatedPaginated("BibleVerse", request, response)

\* BibleAPIMixin._get_verse
BibleAPIMixin_get_verse(transport, args) ==
    LET request ==
            Request("/v1/bibles/" \o Str(args.bible_id) \o "/books/" \o args.book \o "/chapters/"
                      \o Str(args.chapter) \o "/verses/" \o Str(args.verse),
                    None)
        response == Sync_get_call(transport)  \* http.get(...): not awaited
    IN  IF Unusable(response) THEN Fails("status_code", request, response)
        ELSE IF response.response.status_code = 404
        THEN MethodReturns(
                Err(NotFoundError("verse", args.book \o "." \o Str(args.chapter) \o "." \o Str(args.verse),
                  "Verse " \o args.book \o " " \o Str(args.chapter) \o ":" \o Str(args.verse)
                  \o " not found")),
                request, response)
        ELSE OkValidated("BibleVerse", request, response)

\* BibleAPIMixin._get_passage
BibleAPIMixin_get_passage(transport, args) ==
    LET request ==
            Request("/v1/bibles/" \o Str(args.bible_id) \o "/passages/" \o args.usfm,
                    Some(<< <<"format", args.format>>,
                         <<"include_headings", BoolLower(args.include_headings)>>,
                         <<"include_notes", BoolLower(args.include_notes)>> >>))
        response == Sync_get_call(transport)  \* http.get(...): not awaited
    IN  IF Unusable(response) THEN Fails("status_code", request, response)
        ELSE IF response.response.status_code = 404
        THEN MethodReturns(
                Err(NotFoundError("passage", args.usfm,
                  "Passage " \o args.usfm \o " not found")),
                request, response)
        ELSE IF response.response.status_code = 400
        THEN MethodReturns(
                Err(ValidationError("usfm", "Invalid USFM format")),
                request, response)
        ELSE OkValidated("BiblePassage", request, response)

\* mixin._<method>(http, ...)
BibleAPIMixin_call(method, transport, args) ==
    CASE method = "get_versions" ->
            BibleAPIMixin_get_versions(transport, args)
      [] method = "get_version" ->
            BibleAPIMixin_get_version(transport, args)
      [] method = "get_books" ->
            BibleAPIMixin_get_books(transport, args)
      [] method = "get_book" ->
            BibleAPIMixin_get_book(transport, args)
      [] method = "get_chapters" ->
            BibleAPIMixin_get_chapters(transport, args)
      [] method = "get_chapter" ->
            BibleAPIMixin_get_chapter(transport, args)
      [] method = "get_verses" ->
            BibleAPIMixin_get_verses(transport, args)
      [] method = "get_verse" ->
            BibleAPIMixin_get_verse(transport, args)
      [] method = "get_passage" ->
            BibleAPIMixin_get_passage(transport, args)

-----------------------------------------------------------------------------
(* core/client.py: looking a method up on a facade and calling it *)

\* client.<method>(...): the method the class defines under that name runs; a
\* name the class does not define is an AttributeError at the attribute lookup,
\* before anything is sent
YouVersionClient_call(method, transport, args) ==
    CASE method = "get_versions" ->
            YouVersionClient_get_versions(transport, args)
      [] method = "get_version" ->
            YouVersionClient_get_version(transport, args)
      [] method = "get_books" ->
            YouVersionClient_get_books(transport, args)
      [] method = "get_book" ->
            YouVersionClient_get_book(transport, args)
      [] method = "get_chapters" ->
            YouVersionClient_get_chapters(transport, args)
      [] method = "get_chapter" ->
            YouVersionClient_get_chapter(transport, args)
      [] method = "get_verses" ->
            YouVersionClient_get_verses(transport, args)
      [] method = "get_verse" ->
            YouVersionClient_get_verse(transport, args)
      [] method = "get_passage" ->
            YouVersionClient_get_passage(transport, args)
      [] method = "get_languages" ->
            YouVersionClient_get_languages(transport, args)
      [] method = "get_language" ->
            YouVersionClient_get_language(transport, args)
      [] method = "get_licenses" ->
            YouVersionClient_get_licenses(transport, args)
      [] OTHER ->
            MethodRaises(NoAttributeExc("YouVersionClient", method), NoRequest, Coroutine)

\* client.<method>(...): the method the class defines under that name runs; a
\* name the class does not define is an AttributeError at the attribute lookup,
\* before anything is sent
AsyncYouVersionClient_call(method, transport, args) ==
    CASE method = "get_versions" ->
            AsyncYouVersionClient_get_versions(transport, args)
      [] method = "get_version" ->
            AsyncYouVersionClient_get_version(transport, args)
      [] method = "get_books" ->
            AsyncYouVersionClient_get_books(transport, args)
      [] method = "get_book" ->
            AsyncYouVersionClient_get_book(transport, args)
      [] method = "get_chapters" ->
            AsyncYouVersionClient_get_chapters(transport, args)
      [] method = "get_chapter" ->
            AsyncYouVersionClient_get_chapter(transport, args)
      [] method = "get_verses" ->
            AsyncYouVersionClient_get_verses(transport, args)
      [] method = "get_verse" ->
            AsyncYouVersionClient_get_verse(transport, args)
      [] method = "get_passage" ->
            AsyncYouVersionClient_get_passage(transport, args)
      [] method = "get_languages" ->
            AsyncYouVersionClient_get_languages(transport, args)
      [] method = "get_language" ->
            AsyncYouVersionClient_get_language(transport, args)
      [] method = "get_licenses" ->
            AsyncYouVersionClient_get_licenses(transport, args)
      [] OTHER ->
            MethodRaises(NoAttributeExc("AsyncYouVersionClient", method), NoRequest, Coroutine)

-----------------------------------------------------------------------------
(* The callers' inputs and the environment's replies *)

Methods ==
    {"get_versions", "get_version", "get_books", "get_book", "get_chapters",
     "get_chapter", "get_verses", "get_verse", "get_passage", "get_languages",
     "get_language", "get_licenses"}

\* the methods tests/unit/votd/test_api.py and
\* tests/unit/organizations/test_api.py call on the client and client.py does
\* not define
UndefinedMethods == {"get_votd", "get_organization"}

\* the record class a method declares, and whether it returns a page of them
RecordClass(method) ==
    CASE method \in {"get_versions", "get_version"} -> "BibleVersion"
      [] method \in {"get_books", "get_book"} -> "BibleBook"
      [] method \in {"get_chapters", "get_chapter"} -> "BibleChapter"
      [] method \in {"get_verses", "get_verse"} -> "BibleVerse"
      [] method = "get_passage" -> "BiblePassage"
      [] method \in {"get_languages", "get_language"} -> "Language"
      [] method = "get_licenses" -> "License"
      [] method = "get_votd" -> "VerseOfTheDay"
      [] method = "get_organization" -> "Organization"

IsPaginated(method) ==
    method \in {"get_versions", "get_books", "get_chapters", "get_verses",
                "get_languages", "get_licenses"}

BibleIds == {111, 999}

Books == {"JHN", "XYZ"}

Chapters == {3, 99}

Verses == {16, 200}

Usfms == {"JHN.3.16", "JHN.99"}

LanguageIds == {"en", "xyz"}

ArgsOf(method) ==
    CASE method = "get_versions" ->
            {[NoArgs EXCEPT !.language_ranges = "en", !.license_id = l] :
                l \in {None, Some(7)}}
      [] method \in {"get_version", "get_books"} ->
            {Args(v, "", 0, 0, "", "") : v \in BibleIds}
      [] method \in {"get_book", "get_chapters"} ->
            {Args(v, b, 0, 0, "", "") : v \in BibleIds, b \in Books}
      [] method \in {"get_chapter", "get_verses"} ->
            {Args(111, b, c, 0, "", "") : b \in Books, c \in Chapters}
      [] method = "get_verse" ->
            {Args(111, "JHN", c, v, "", "") : c \in Chapters, v \in Verses}
      [] method = "get_passage" ->
            {[Args(111, "", 0, 0, u, "") EXCEPT
                    !.format = f[1], !.include_headings = f[2], !.include_notes = f[3]] :
                u \in Usfms,
                f \in {<<"text", FALSE, FALSE>>, <<"html", TRUE, FALSE>>,
                       <<"text", FALSE, TRUE>>}}
      [] method = "get_languages" ->
            {[NoArgs EXCEPT !.country = c, !.page_size = s, !.page_token = t] :
                c \in {None, Some("US")}, s \in {None, Some(10)},
                t \in {None, Some("tok")}}
      [] method = "get_language" ->
            {Args(0, "", 0, 0, "", l) : l \in LanguageIds}
      [] method = "get_licenses" ->
            {[NoArgs EXCEPT !.bible_id = 111, !.developer_id = "dev",
                            !.all_available = a] : a \in BOOLEAN}
      [] method = "get_votd" ->
            {[NoArgs EXCEPT !.day = d] : d \in {1, 365, 999}}
      [] method = "get_organization" ->
            {[NoArgs EXCEPT !.organization_id = o] : o \in {"550e8400", "bad-uuid"}}

Statuses == {200, 301, 400, 401, 403, 404, 429, 500, 503}

\* the Retry-After values the environment sends
HeaderValues == UNION {[1..n -> HeaderChars] : n \in 0..MaxHeaderLen}

\* a JSON object no record class accepts, such as {"error": "not_found"}
ErrorObj == Obj({"error"}, 3, <<>>, None, None)

\* items of a data array: one with only the required keys, one with every
\* declared key and an undeclared one, one the class rejects
ItemPool(cls) ==
    {Item(Required(cls), 1), Item(Fields(cls) \cup {"undeclared"}, 2),
     Item({"error"}, 3)}

DataArrays(cls) == UNION {[1..n -> ItemPool(cls)] : n \in 0..MaxItems}

PageObjs(cls) ==
    {Obj({"data"}, 0, d, None, None) : d \in DataArrays(cls)}
    \cup {Obj({"data", "next_page_token", "total_count"}, 0, d, Some("tok"),
              Some(Len(d))) : d \in DataArrays(cls)}

RecordObjs(cls) ==
    {Obj(Required(cls), 1, <<>>, None, None),
     Obj(Fields(cls) \cup {"undeclared"}, 2, <<>>, None, None)}

Bodies(method) ==
    {NotJsonBody, JsonBody(ErrorObj)}
    \cup {JsonBody(o) : o \in IF IsPaginated(method)
                              THEN PageObjs(RecordClass(method))
                              ELSE RecordObjs(RecordClass(method))}

Responses(method) ==
    {Response(s, Headers(None), b) : s \in Statuses, b \in Bodies(method)}
    \cup {Response(429, Headers(Some(h)), NotJsonBody) : h \in HeaderValues}
    \cup {Response(503, Headers(Some(<<"6", "0">>)), NotJsonBody)}

\* what the underlying client does with the request of one call
Transports(method) ==
    {TransportError(e) : e \in HttpxErrors}
    \cup {TransportResponse(r) : r \in Responses(method)}

-----------------------------------------------------------------------------
(* The state: the last call and its outcome.  Under LifeSpec `instance` is  *)
(* the index of the facade instance operated on, `was_closed` tells whether  *)
(* close had completed on it when the operation began, `scope` how the body  *)
(* of a with statement ended, and `wire` what the httpx client put on the    *)
(* wire during the call.                                                     *)

\* the headers both adapters configure on their httpx client
RequestHeaderNames == {"X-YVP-App-Key", "Accept"}

Completed(facade, method, args, server, outcome) ==
    [facade |-> facade, method |-> method, args |-> args, server |-> server,
     kind |-> outcome.kind, exc |-> outcome.exc, result |-> outcome.result,
     response |-> outcome.response, request |-> outcome.request,
     sent |-> outcome.sent, checked |-> outcome.checked,
     instance |-> 0, was_closed |-> FALSE, scope |-> "",
     wire |-> [requests |-> 0, headers |-> [n \in RequestHeaderNames |-> ""]]]

NoCall ==
    Completed("none", "none", NoArgs, TransportResponse(NoResponse),
              Outcome("none", NoExc, NoResult, NoResponse, NoRequest, Coroutine))

Idle == last.facade = "none"

Init ==
    /\ last = NoCall
    /\ clients = <<>>
    /\ adapters = <<>>
    /\ pools = <<>>

\* the outcome of awaiting an adapter's get(path)
AdapterOutcome(got) ==
    Outcome(IF got.kind = "raise" THEN "raise" ELSE "return", got.exc, NoResult,
            got.response, Request("/v1/bibles", None), got)

\* a caller awaits AsyncHTTPAdapter.get
Await_AsyncHTTPAdapter_get ==
    /\ Idle
    /\ \E transport \in Transports("get_version") :
          last' = Completed("AsyncHTTPAdapter", "get", NoArgs, transport,
                            AdapterOutcome(Async_get(transport)))
    /\ UNCHANGED <<clients, adapters, pools>>

\* a caller awaits SyncHTTPAdapter.get
Await_SyncHTTPAdapter_get ==
    /\ Idle
    /\ \E transport \in Transports("get_version") :
          last' = Completed("SyncHTTPAdapter", "get", NoArgs, transport,
                            AdapterOutcome(Sync_get(transport)))
    /\ UNCHANGED <<clients, adapters, pools>>

\* a caller calls YouVersionClient.get_versions and gets its outcome
Call_YouVersionClient_get_versions ==
    /\ Idle
    /\ \E args \in ArgsOf("get_versions"), transport \in Transports("get_versions") :
          last' = Completed("YouVersionClient", "get_versions", args, transport,
                            YouVersionClient_get_versions(transport, args))
    /\ UNCHANGED <<clients, adapters, pools>>

\* a caller calls YouVersionClient.get_version and gets its outcome
Call_YouVersionClient_get_version ==
    /\ Idle
    /\ \E args \in ArgsOf("get_version"), transport \in Transports("get_version") :
          last' = Completed("YouVersionClient", "get_version", args, transport,
                            YouVersionClient_get_version(transport, args))
    /\ UNCHANGED <<clients, adapters, pools>>

\* a caller calls YouVersionClient.get_books and gets its outcome
Call_YouVersionClient_get_books ==
    /\ Idle
    /\ \E args \in ArgsOf("get_books"), transport \in Transports("get_books") :
          last' = Completed("YouVersionClient", "get_books", args, transport,
                            YouVersionClient_get_books(transport, args))
    /\ UNCHANGED <<clients, adapters, pools>>

\* a caller calls YouVersionClient.get_book and gets its outcome
Call_YouVersionClient_get_book ==
    /\ Idle
    /\ \E args \in ArgsOf("get_book"), transport \in Transports("get_book") :
          last' = Completed("YouVersionClient", "get_book", args, transport,
                            YouVersionClient_get_book(transport, args))
    /\ UNCHANGED <<clients, adapters, pools>>

\* a caller calls YouVersionClient.get_chapters and gets its outcome
Call_YouVersionClient_get_chapters ==
    /\ Idle
    /\ \E args \in ArgsOf("get_chapters"), transport \in Transports("get_chapters") :
          last' = Completed("YouVersionClient", "get_chapters", args, transport,
                            YouVersionClient_get_chapters(transport, args))
    /\ UNCHANGED <<clients, adapters, pools>>

\* a caller calls YouVersionClient.get_chapter and gets its outcome
Call_YouVersionClient_get_chapter ==
    /\ Idle
    /\ \E args \in ArgsOf("get_chapter"), transport \in Transports("get_chapter") :
          last' = Completed("YouVersionClient", "get_chapter", args, transport,
                            YouVersionClient_get_chapter(transport, args))
    /\ UNCHANGED <<clients, adapters, pools>>

\* a caller calls YouVersionClient.get_verses and gets its outcome
Call_YouVersionClient_get_verses ==
    /\ Idle
    /\ \E args \in ArgsOf("get_verses"), transport \in Transports("get_verses") :
          last' = Completed("YouVersionClient", "get_verses", args, transport,
                            YouVersionClient_get_verses(transport, args))
    /\ UNCHANGED <<clients, adapters, pools>>

\* a caller calls YouVersionClient.get_verse and gets its outcome
Call_YouVersionClient_get_verse ==
    /\ Idle
    /\ \E args \in ArgsOf("get_verse"), transport \in Transports("get_verse") :
          last' = Completed("YouVersionClient", "get_verse", args, transport,
                            YouVersionClient_get_verse(transport, args))
    /\ UNCHANGED <<clients, adapters, pools>>

\* a caller calls YouVersionClient.get_passage and gets its outcome
Call_YouVersionClient_get_passage ==
    /\ Idle
    /\ \E args \in ArgsOf("get_passage"), transport \in Transports("get_passage") :
          last' = Completed("YouVersionClient", "get_passage", args, transport,
                            YouVersionClient_get_passage(transport, args))
    /\ UNCHANGED <<clients, adapters, pools>>

\* a caller calls YouVersionClient.get_languages and gets its outcome
Call_YouVersionClient_get_languages ==
    /\ Idle
    /\ \E args \in ArgsOf("get_languages"), transport \in Transports("get_languages") :
          last' = Completed("YouVersionClient", "get_languages", args, transport,
                            YouVersionClient_get_languages(transport, args))
    /\ UNCHANGED <<clients, adapters, pools>>

\* a caller calls YouVersionClient.get_language and gets its outcome
Call_YouVersionClient_get_language ==
    /\ Idle
    /\ \E args \in ArgsOf("get_language"), transport \in Transports("get_language") :
          last' = Completed("YouVersionClient", "get_language", args, transport,
                            YouVersionClient_get_language(transport, args))
    /\ UNCHANGED <<clients, adapters, pools>>

\* a caller calls YouVersionClient.get_licenses and gets its outcome
Call_YouVersionClient_get_licenses ==
    /\ Idle
    /\ \E args \in ArgsOf("get_licenses"), transport \in Transports("get_licenses") :
          last' = Completed("YouVersionClient", "get_licenses", args, transport,
                            YouVersionClient_get_licenses(transport, args))
    /\ UNCHANGED <<clients, adapters, pools>>

\* a caller calls AsyncYouVersionClient.get_versions and gets its outcome
Call_AsyncYouVersionClient_get_versions ==
    /\ Idle
    /\ \E args \in ArgsOf("get_versions"), transport \in Transports("get_versions") :
          last' = Completed("AsyncYouVersionClient", "get_versions", args, transport,
                            AsyncYouVersionClient_get_versions(transport, args))
    /\ UNCHANGED <<clients, adapters, pools>>

\* a caller calls AsyncYouVersionClient.get_version and gets its outcome
Call_AsyncYouVersionClient_get_version ==
    /\ Idle
    /\ \E args \in ArgsOf("get_version"), transport \in Transports("get_version") :
          last' = Completed("AsyncYouVersionClient", "get_version", args, transport,
                            AsyncYouVersionClient_get_version(transport, args))
    /\ UNCHANGED <<clients, adapters, pools>>

\* a caller calls AsyncYouVersionClient.get_books and gets its outcome
Call_AsyncYouVersionClient_get_books ==
    /\ Idle
    /\ \E args \in ArgsOf("get_books"), transport \in Transports("get_books") :
          last' = Completed("AsyncYouVersionClient", "get_books", args, transport,
                            AsyncYouVersionClient_get_books(transport, args))
    /\ UNCHANGED <<clients, adapters, pools>>

\* a caller calls AsyncYouVersionClient.get_book and gets its outcome
Call_AsyncYouVersionClient_get_book ==
    /\ Idle
    /\ \E args \in ArgsOf("get_book"), transport \in Transports("get_book") :
          last' = Completed("AsyncYouVersionClient", "get_book", args, transport,
                            AsyncYouVersionClient_get_book(transport, args))
    /\ UNCHANGED <<clients, adapters, pools>>

\* a caller calls AsyncYouVersionClient.get_chapters and gets its outcome
Call_AsyncYouVersionClient_get_chapters ==
    /\ Idle
    /\ \E args \in ArgsOf("get_chapters"), transport \in Transports("get_chapters") :
          last' = Completed("AsyncYouVersionClient", "get_chapters", args, transport,
                            AsyncYouVersionClient_get_chapters(transport, args))
    /\ UNCHANGED <<clients, adapters, pools>>

\* a caller calls AsyncYouVersionClient.get_chapter and gets its outcome
Call_AsyncYouVersionClient_get_chapter ==
    /\ Idle
    /\ \E args \in ArgsOf("get_chapter"), transport \in Transports("get_chapter") :
          last' = Completed("AsyncYouVersionClient", "get_chapter", args, transport,
                            AsyncYouVersionClient_get_chapter(transport, args))
    /\ UNCHANGED <<clients, adapters, pools>>

\* a caller calls AsyncYouVersionClient.get_verses and gets its outcome
Call_AsyncYouVersionClient_get_verses ==
    /\ Idle
    /\ \E args \in ArgsOf("get_verses"), transport \in Transports("get_verses") :
          last' = Completed("AsyncYouVersionClient", "get_verses", args, transport,
                            AsyncYouVersionClient_get_verses(transport, args))
    /\ UNCHANGED <<clients, adapters, pools>>

\* a caller calls AsyncYouVersionClient.get_verse and gets its outcome
Call_AsyncYouVersionClient_get_verse ==
    /\ Idle
    /\ \E args \in ArgsOf("get_verse"), transport \in Transports("get_verse") :
          last' = Completed("AsyncYouVersionClient", "get_verse", args, transport,
                            AsyncYouVersionClient_get_verse(transport, args))
    /\ UNCHANGED <<clients, adapters, pools>>

\* a caller calls AsyncYouVersionClient.get_passage and gets its outcome
Call_AsyncYouVersionClient_get_passage ==
    /\ Idle
    /\ \E args \in ArgsOf("get_passage"), transport \in Transports("get_passage") :
          last' = Completed("AsyncYouVersionClient", "get_passage", args, transport,
                            AsyncYouVersionClient_get_passage(transport, args))
    /\ UNCHANGED <<clients, adapters, pools>>

\* a caller calls AsyncYouVersionClient.get_languages and gets its outcome
Call_AsyncYouVersionClient_get_languages ==
    /\ Idle
    /\ \E args \in ArgsOf("get_languages"), transport \in Transports("get_languages") :
          last' = Completed("AsyncYouVersionClient", "get_languages", args, transport,
                            AsyncYouVersionClient_get_languages(transport, args))
    /\ UNCHANGED <<clients, adapters, pools>>

\* a caller calls AsyncYouVersionClient.get_language and gets its outcome
Call_AsyncYouVersionClient_get_language ==
    /\ Idle
    /\ \E args \in ArgsOf("get_language"), transport \in Transports("get_language") :
          last' = Completed("AsyncYouVersionClient", "get_language", args, transport,
                            AsyncYouVersionClient_get_language(transport, args))
    /\ UNCHANGED <<clients, adapters, pools>>

\* a caller calls AsyncYouVersionClient.get_licenses and gets its outcome
Call_AsyncYouVersionClient_get_licenses ==
    /\ Idle
    /\ \E args \in ArgsOf("get_licenses"), transport \in Transports("get_licenses") :
          last' = Completed("AsyncYouVersionClient", "get_licenses", args, transport,
                            AsyncYouVersionClient_get_licenses(transport, args))
    /\ UNCHANGED <<clients, adapters, pools>>

\* a caller calls a method the tests and examples use and YouVersionClient
\* does not define
Call_YouVersionClient_undefined ==
    /\ Idle
    /\ \E method \in UndefinedMethods :
          \E args \in ArgsOf(method), transport \in Transports(method) :
              last' = Completed("YouVersionClient", method, args, transport,
                                YouVersionClient_call(method, transport, args))
    /\ UNCHANGED <<clients, adapters, pools>>

\* a caller calls a method the tests and examples use and AsyncYouVersionClient
\* does not define
Call_AsyncYouVersionClient_undefined ==
    /\ Idle
    /\ \E method \in UndefinedMethods :
          \E args \in ArgsOf(method), transport \in Transports(method) :
              last' = Completed("AsyncYouVersionClient", method, args, transport,
                                AsyncYouVersionClient_call(method, transport, args))
    /\ UNCHANGED <<clients, adapters, pools>>

\* a caller calls a method of BibleAPIMixin with a SyncHTTPAdapter and gets
\* its outcome; last.method is the method's name without the leading underscore
Call_BibleAPIMixin ==
    /\ Idle
    /\ \E method \in Methods \ {"get_languages", "get_language", "get_licenses"} :
          \E args \in ArgsOf(method), transport \in Transports(method) :
              last' = Completed("BibleAPIMixin", method, args, transport,
                                BibleAPIMixin_call(method, transport, args))
    /\ UNCHANGED <<clients, adapters, pools>>

\* the caller tries to reassign value or error of the Result a call returned
Assign_result_field ==
    /\ last.kind = "return"
    /\ last.facade \in {"YouVersionClient", "AsyncYouVersionClient"}
    /\ \E name \in {"value", "error"},
          donor \in {Ok(Parsed("BibleVersion", {"id"}, 9, <<>>, None, None)),
                     Err(NotFoundError("version", "0", "replaced"))} :
          LET set == Result_setattr(last.result, name, donor)
          IN  last' = [last EXCEPT
                          !.facade = IF is_ok(last.result) THEN "Ok" ELSE "Err",
                          !.method = "__setattr__",
                          !.kind = IF set.exc = NoExc THEN "return" ELSE "raise",
                          !.exc = set.exc,
                          !.result = set.result]
    /\ UNCHANGED <<clients, adapters, pools>>

\* the caller tries to assign a field of a record it received inside Ok: the
\* record itself, or the first record of a page
Assign_record_field ==
    /\ last.kind = "return"
    /\ last.facade \in {"YouVersionClient", "AsyncYouVersionClient"}
    /\ is_ok(last.result)
    /\ IsPaginated(last.method) => Len(last.result.value.data) >= 1
    /\ \E field \in Required(RecordClass(last.method)) \cap {"id", "title", "name"} :
          LET cls == RecordClass(last.method)
              record == IF IsPaginated(last.method) THEN last.result.value.data[1]
                        ELSE last.result.value
              set == Record_setattr(cls, record.val, field, 9)
          IN  last' = [last EXCEPT
                          !.facade = cls,
                          !.kind = IF set.exc = NoExc THEN "return" ELSE "raise",
                          !.exc = set.exc,
                          !.result =
                              IF IsPaginated(last.method)
                              THEN [@ EXCEPT !.value.data[1].val = set.val]
                              ELSE [@ EXCEPT !.value.val = set.val]]
    /\ UNCHANGED <<clients, adapters, pools>>

\* the caller is done with the outcome of its last call
Consume ==
    /\ ~Idle
    /\ last' = NoCall
    /\ UNCHANGED <<clients, adapters, pools>>

Next ==
    \/ Await_AsyncHTTPAdapter_get
    \/ Await_SyncHTTPAdapter_get
    \/ Call_YouVersionClient_get_versions
    \/ Call_YouVersionClient_get_version
    \/ Call_YouVersionClient_get_books
    \/ Call_YouVersionClient_get_book
    \/ Call_YouVersionClient_get_chapters
    \/ Call_YouVersionClient_get_chapter
    \/ Call_YouVersionClient_get_verses
    \/ Call_YouVersionClient_get_verse
    \/ Call_YouVersionClient_get_passage
    \/ Call_YouVersionClient_get_languages
    \/ Call_YouVersionClient_get_language
    \/ Call_YouVersionClient_get_licenses
    \/ Call_AsyncYouVersionClient_get_versions
    \/ Call_AsyncYouVersionClient_get_version
    \/ Call_AsyncYouVersionClient_get_books
    \/ Call_AsyncYouVersionClient_get_book
    \/ Call_AsyncYouVersionClient_get_chapters
    \/ Call_AsyncYouVersionClient_get_chapter
    \/ Call_AsyncYouVersionClient_get_verses
    \/ Call_AsyncYouVersionClient_get_verse
    \/ Call_AsyncYouVersionClient_get_passage
    \/ Call_AsyncYouVersionClient_get_languages
    \/ Call_AsyncYouVersionClient_get_language
    \/ Call_AsyncYouVersionClient_get_licenses
    \/ Call_YouVersionClient_undefined
    \/ Call_AsyncYouVersionClient_undefined
    \/ Call_BibleAPIMixin
    \/ Assign_result_field
    \/ Assign_record_field
    \/ Consume

Spec == Init /\ [][Next]_vars

-----------------------------------------------------------------------------
(* The life of a facade instance (core/client.py 31-48 and 288-305,          *)
(* core/http.py 20-31, 65-67, 78-89 and 123-125).                            *)
(*                                                                           *)
(* httpx is a library the adapters use.  What the model takes from it: a     *)
(* client merges the headers it was constructed with into every request it   *)
(* sends; close() and aclose() tear the transport down unless the client is  *)
(* already closed; a closed client refuses a request with RuntimeError       *)
(* before anything is sent.                                                  *)

ApiKeys == {"key-a", "key-b"}

\* the headers without Accept
DefaultHeaders_no_accept(api_key) ==
    [n \in RequestHeaderNames |-> IF n = "X-YVP-App-Key" THEN api_key ELSE ""]

\* headers={"X-YVP-App-Key": api_key, "Accept": "application/json"}
DefaultHeaders(api_key) ==
    [n \in RequestHeaderNames |->
        IF n = "X-YVP-App-Key" THEN api_key ELSE "application/json"]

\* self._client.get(path, params=params) on the httpx client `pool`, the
\* network standing ready to do `transport` with the request
Httpx_send(pool, transport) ==
    IF pool.is_closed THEN TransportError("RuntimeError") ELSE transport

\* self._client.aclose(), self._client.close()
Httpx_close(pool) ==
    IF pool.is_closed THEN pool
    ELSE [pool EXCEPT !.is_closed = TRUE, !.teardowns = @ + 1]

\* close that tears the connection pool down whenever it is called
AsyncYouVersionClient_close_unguarded(pool) ==
    [pool EXCEPT !.is_closed = TRUE, !.teardowns = @ + 1]

\* close that calls the adapter's close and does not await it
AsyncYouVersionClient_close_not_awaited(pool) == pool

\* AsyncYouVersionClient.close: await self._http.close(), which awaits
\* self._client.aclose()
AsyncYouVersionClient_close(pool) == Httpx_close(pool)

\* YouVersionClient.close: self._http.close() is a call of an `async def`
\* that is not awaited; the coroutine object is dropped and the body of
\* SyncHTTPAdapter.close never runs
YouVersionClient_close(pool) == pool

\* the httpx client of instance i
PoolOf(i) == pools[adapters[clients[i]._http]._client]

\* what the httpx client put on the wire during a call
Wire(got, pool) ==
    IF got.sent /\ ~pool.is_closed
    THEN [requests |-> 1, headers |-> pool.headers]
    ELSE [requests |-> 0, headers |-> [n \in RequestHeaderNames |-> ""]]

\* an operation of the life cycle on instance i, as the caller observes it
LifecycleOp(facade, i, method, was_closed, scope) ==
    [Completed(facade, method, NoArgs, TransportResponse(NoResponse),
               Outcome(IF scope = "error" THEN "raise" ELSE "return",
                       IF scope = "error" THEN Exc("Exception", "raised in the body")
                       ELSE NoExc,
                       NoResult, NoResponse, NoRequest, Coroutine))
        EXCEPT !.instance = i, !.was_closed = was_closed, !.scope = scope]

\* __init__ of a facade: a new adapter, which makes a new httpx client
Construct(facade) ==
    /\ Idle
    /\ Len(clients) < MaxClients
    /\ \E api_key \in ApiKeys :
          /\ pools' = Append(pools,
                [class |-> IF facade = "YouVersionClient" THEN "httpx.Client"
                           ELSE "httpx.AsyncClient",
                 headers |-> DefaultHeaders(api_key),
                 base_url |-> "https://api.youversion.com",  \* DEFAULT_BASE_URL
                 timeout |-> 30,                             \* DEFAULT_TIMEOUT
                 is_closed |-> FALSE, teardowns |-> 0])
          /\ adapters' = Append(adapters,
                [class |-> IF facade = "YouVersionClient" THEN "SyncHTTPAdapter"
                           ELSE "AsyncHTTPAdapter",
                 _api_key |-> api_key, _client |-> Len(pools) + 1])
    /\ clients' = Append(clients,
          [facade |-> facade, _http |-> Len(adapters) + 1, closed |-> FALSE])
    /\ last' = LifecycleOp(facade, Len(clients) + 1, "__init__", FALSE, "")

\* __enter__ / __aenter__: return self
Enter(i) ==
    /\ Idle
    /\ i \in 1..Len(clients)
    /\ last' = LifecycleOp(clients[i].facade, i,
                            IF clients[i].facade = "YouVersionClient"
                            THEN "__enter__" ELSE "__aenter__",
                            clients[i].closed, "")
    /\ UNCHANGED <<clients, adapters, pools>>

\* the facade's close on the httpx client of instance i; `closed` records
\* that close has completed on the instance
Closing(i) ==
    /\ clients' = [clients EXCEPT ![i].closed = TRUE]
    /\ pools' = [pools EXCEPT ![adapters[clients[i]._http]._client] =
                    IF clients[i].facade = "YouVersionClient"
                    THEN YouVersionClient_close(@)
                    ELSE AsyncYouVersionClient_close(@)]
    /\ UNCHANGED adapters

\* client.close() / await client.close()
Close(i) ==
    /\ Idle
    /\ i \in 1..Len(clients)
    /\ Closing(i)
    /\ last' = LifecycleOp(clients[i].facade, i, "close", clients[i].closed, "")

\* __exit__ / __aexit__ at the end of a with statement whose body finished
\* normally or raised: self.close(), the arguments ignored, None returned, so
\* that an exception of the body goes on to the caller
Exit(i) ==
    /\ Idle
    /\ i \in 1..Len(clients)
    /\ Closing(i)
    /\ \E scope \in {"normal", "error"} :
          last' = LifecycleOp(clients[i].facade, i,
                              IF clients[i].facade = "YouVersionClient"
                              THEN "__exit__" ELSE "__aexit__",
                              clients[i].closed, scope)

\* the calls the life cycle is explored with: per method one argument list
\* and the replies that differ in how the call ends
LifeInputs(method) ==
    {[args |-> CHOOSE a \in ArgsOf(method) : TRUE, transport |-> t] :
        t \in {t \in Transports(method) :
                 \/ t.kind = "error" /\ t.error = "ConnectError"
                 \/ /\ t.kind = "response"
                    /\ t.response.status_code \in {200, 404, 429}
                    /\ t.response.headers["Retry-After"] = None
                    /\ t.response.body.json
                    /\ "next_page_token" \in t.response.body.obj.keys
                          \/ "undeclared" \in t.response.body.obj.keys
                    /\ Len(t.response.body.obj.data) = 1 =>
                          "undeclared" \in t.response.body.obj.data[1].keys
                    /\ Len(t.response.body.obj.data) <= 1}}

\* a call after which a facade whose call raised is left closed
Call_closing_on_raise(i) ==
    /\ Idle
    /\ i \in 1..Len(clients)
    /\ \E method \in Methods :
          \E input \in LifeInputs(method) :
              LET transport == Httpx_send(PoolOf(i), input.transport)
                  outcome == IF clients[i].facade = "YouVersionClient"
                             THEN YouVersionClient_call(method, transport, input.args)
                             ELSE AsyncYouVersionClient_call(method, transport,
                                                             input.args)
              IN  /\ last' = [Completed(clients[i].facade, method, input.args,
                                     input.transport, outcome)
                              EXCEPT !.instance = i,
                                     !.was_closed = clients[i].closed,
                                     !.wire = Wire(outcome, PoolOf(i))]
                  /\ pools' = [pools EXCEPT ![adapters[clients[i]._http]._client] =
                                  IF outcome.kind = "raise" THEN Httpx_close(@) ELSE @]
    /\ UNCHANGED <<clients, adapters>>

\* an endpoint method called on instance i
Call(i) ==
    /\ Idle
    /\ i \in 1..Len(clients)
    /\ \E method \in Methods :
          \E input \in LifeInputs(method) :
              LET transport == Httpx_send(PoolOf(i), input.transport)
                  outcome == IF clients[i].facade = "YouVersionClient"
                             THEN YouVersionClient_call(method, transport, input.args)
                             ELSE AsyncYouVersionClient_call(method, transport,
                                                             input.args)
              IN  last' = [Completed(clients[i].facade, method, input.args,
                                     input.transport, outcome)
                              EXCEPT !.instance = i,
                                     !.was_closed = clients[i].closed,
                                     !.wire = Wire(outcome, PoolOf(i))]
    /\ UNCHANGED <<clients, adapters, pools>>

\* the adapter of instance i used directly: await adapter.get(path)
Await_get(i) ==
    /\ Idle
    /\ i \in 1..Len(clients)
    /\ \E input \in LifeInputs("get_version") :
          LET transport == Httpx_send(PoolOf(i), input.transport)
              got == IF adapters[clients[i]._http].class = "SyncHTTPAdapter"
                     THEN Sync_get(transport) ELSE Async_get(transport)
          IN  last' = [Completed(adapters[clients[i]._http].class, "get", NoArgs,
                                 input.transport, AdapterOutcome(got))
                          EXCEPT !.instance = i,
                                 !.was_closed = clients[i].closed,
                                 !.wire = Wire(got, PoolOf(i))]
    /\ UNCHANGED <<clients, adapters, pools>>

LifeNext ==
    \/ Construct("YouVersionClient")
    \/ Construct("AsyncYouVersionClient")
    \/ \E i \in 1..MaxClients : Enter(i)
    \/ \E i \in 1..MaxClients : Close(i)
    \/ \E i \in 1..MaxClients : Exit(i)
    \/ \E i \in 1..MaxClients : Call(i)
    \/ \E i \in 1..MaxClients : Await_get(i)
    \/ Consume

LifeSpec == Init /\ [][LifeNext]_vars

-----------------------------------------------------------------------------
(* Properties.  `last.server` is the reply the server gives to the request   *)
(* of the call in `last`, as a test's mocked route fixes it.                 *)

Facades == {"YouVersionClient", "AsyncYouVersionClient"}

Adapters == {"SyncHTTPAdapter", "AsyncHTTPAdapter"}

FacadeCall == last.facade \in Facades

AdapterCall == last.facade \in Adapters

ServerResponds == last.server.kind = "response"

ServerStatus == last.server.response.status_code

\* the statuses the adapters turn into exceptions
TransportStatus(s) == s = 401 \/ s = 429 \/ s >= 500

DomainErrorClasses == {"NotFoundError", "ValidationError"}

\* the methods with a modeled 404 and the resource each documents
MethodsWith404 ==
    {"get_version", "get_books", "get_book", "get_chapters", "get_chapter",
     "get_verses", "get_verse", "get_passage", "get_language"}

DocumentedResource(method) ==
    CASE method \in {"get_version", "get_books"} -> "version"
      [] method \in {"get_book", "get_chapters"} -> "book"
      [] method \in {"get_chapter", "get_verses"} -> "chapter"
      [] method = "get_verse" -> "verse"
      [] method = "get_passage" -> "passage"
      [] method = "get_language" -> "language"

\* C1: a 401 response makes every facade method and both adapters' get raise
\* AuthenticationError, and no Result (Ok or Err, hence no domain error) is
\* produced.
C1_Unauthorized ==
    (~Idle /\ ServerResponds /\ ServerStatus = 401) =>
        /\ last.kind = "raise"
        /\ last.exc.type = "AuthenticationError"
        /\ last.result = NoResult

\* C2: on a 429 the adapter's get raises RateLimitError, with retry_after the
\* numeric value of the Retry-After header when the header is present and
\* null when it is absent.
C2_RateLimit ==
    (AdapterCall /\ ServerResponds /\ ServerStatus = 429) =>
        LET h == last.server.response.headers["Retry-After"]
        IN  /\ last.kind = "raise"
            /\ last.exc.type = "RateLimitError"
            /\ h = None => last.exc.retry_after = None
            /\ h # None =>
                  /\ Float(h[1]).ok
                  /\ last.exc.retry_after = Some(Float(h[1]).value)

C6_NotFoundResource ==
    (FacadeCall /\ last.method \in MethodsWith404 /\ ServerResponds
                /\ ServerStatus = 404) =>
        /\ last.kind = "return"
        /\ is_err(last.result)
        /\ last.result.error.class = "NotFoundError"
        /\ last.result.error.resource = DocumentedResource(last.method)

\* the arguments of a call as the caller wrote them
InputLiterals(method, args) ==
    CASE method \in {"get_version", "get_books"} -> {Str(args.bible_id)}
      [] method \in {"get_book", "get_chapters"} -> {Str(args.bible_id), args.book}
      [] method \in {"get_chapter", "get_verses"} ->
            {Str(args.bible_id), args.book, Str(args.chapter)}
      [] method = "get_verse" ->
            {Str(args.bible_id), args.book, Str(args.chapter), Str(args.verse)}
      [] method = "get_passage" -> {Str(args.bible_id), args.usfm}
      [] method = "get_language" -> {args.language_id}
      [] OTHER -> {}

ReturnedNotFound ==
    /\ FacadeCall
    /\ last.kind = "return"
    /\ is_err(last.result)
    /\ last.result.error.class = "NotFoundError"

\* C7, as stated: the identifier of a returned NotFoundError equals an input
\* literal the caller supplied.
C7_IdentifierIsInputLiteral ==
    ReturnedNotFound =>
        last.result.error.identifier \in InputLiterals(last.method, last.args)

\* the identifier each endpoint builds from its arguments
BuiltIdentifier(method, args) ==
    CASE method \in {"get_version", "get_books"} -> Str(args.bible_id)
      [] method \in {"get_book", "get_chapters"} -> args.book
      [] method \in {"get_chapter", "get_verses"} ->
            args.book \o "." \o Str(args.chapter)
      [] method = "get_verse" ->
            args.book \o "." \o Str(args.chapter) \o "." \o Str(args.verse)
      [] method = "get_passage" -> args.usfm
      [] method = "get_language" -> args.language_id

\* C7, amended: the identifier of a returned NotFoundError is the lookup key
\* built from the caller's arguments: the version id, the book, the usfm or the
\* language id as given, and the dotted composite book.chapter for get_chapter
\* and get_verses, book.chapter.verse for get_verse.
C7_IdentifierIsLookupKey ==
    ReturnedNotFound =>
        /\ last.method \in MethodsWith404
        /\ last.result.error.identifier = BuiltIdentifier(last.method, last.args)

C7_Witness ==
    /\ ReturnedNotFound
    /\ last.method = "get_chapter"
    /\ last.args.book = "JHN" /\ last.args.chapter = 3
    /\ last.result.error.identifier = "JHN.3"

\* C8: a 400 response makes get_versions return
\* Err(ValidationError(field="language_ranges")) and get_passage return
\* Err(ValidationError(field="usfm")), on both facades, whatever the body.
C8_ValidationField ==
    (FacadeCall /\ last.method \in {"get_versions", "get_passage"}
                /\ ServerResponds /\ ServerStatus = 400) =>
        /\ last.kind = "return"
        /\ is_err(last.result)
        /\ last.result.error.class = "ValidationError"
        /\ last.result.error.field =
              (IF last.method = "get_versions" THEN "language_ranges" ELSE "usfm")

\* C9: on either facade a domain error is never raised and reaches the caller
\* only inside Err; a transport error is only raised: what a method returns is
\* Ok or Err of a domain error, and no call returns when the transport failed
\* or the status is 401, 429 or >= 500.
C9_TwoChannels ==
    FacadeCall =>
        /\ last.kind \in {"raise", "return"}
        /\ last.kind = "raise" =>
              /\ last.exc.type \notin DomainErrorClasses
              /\ last.result = NoResult
        /\ last.kind = "return" =>
              /\ last.exc = NoExc
              /\ is_ok(last.result) \/ is_err(last.result)
              /\ is_err(last.result) => last.result.error.class \in DomainErrorClasses
              /\ is_ok(last.result) => last.result.error = NoError
        /\ (last.server.kind = "error" \/ TransportStatus(ServerStatus)) =>
              last.kind = "raise"

C9_Witness ==
    /\ last.facade = "AsyncYouVersionClient"
    /\ ServerResponds /\ ServerStatus = 401
    /\ last.kind = "raise"
    /\ last.exc.type = "AuthenticationError"

\* the record a method declares, parsed from a body
ParsedRecord(method, obj) ==
    IF IsPaginated(method) THEN ModelValidatePaginated(RecordClass(method), obj)
    ELSE ModelValidate(RecordClass(method), obj)

ValidBody(method, body) ==
    /\ body.json
    /\ IF IsPaginated(method) THEN ValidatesPaginated(RecordClass(method), body.obj)
       ELSE Validates(RecordClass(method), body.obj)

\* C10: on either facade, a success status with a body valid for the declared
\* record type makes the method return Ok holding the parsed record.
C10_SuccessIsOk ==
    (FacadeCall /\ ServerResponds /\ ServerStatus = 200
                /\ ValidBody(last.method, last.server.response.body)) =>
        /\ last.kind = "return"
        /\ last.result = Ok(ParsedRecord(last.method, last.server.response.body.obj))

\* C11: for every endpoint call and every reply of the server, the
\* synchronous facade's outcome is structurally equal to the outcome the
\* asynchronous facade produces for the same call and the same reply: the same
\* Ok value, the same Err value, or a raised exception of the same type.
C11_FacadesAgree ==
    (last.facade = "YouVersionClient") =>
        LET a == AsyncYouVersionClient_call(last.method, last.server, last.args)
        IN  /\ a.kind = last.kind
            /\ a.result = last.result
            /\ a.exc.type = last.exc.type

\* the endpoints with no modeled 400/404 semantics that client.py defines
MethodsWithoutDomainFailure == {"get_languages", "get_licenses"}

\* C15: get_languages and get_licenses never return Err; they return Ok for
\* every 2xx/3xx response, and every 4xx or 5xx response reaches the caller as
\* a raised YouVersionError subclass.
C15_NoModeledFailure ==
    (FacadeCall /\ last.method \in MethodsWithoutDomainFailure /\ ServerResponds) =>
        /\ ~(last.kind = "return" /\ is_err(last.result))
        /\ ServerStatus \in 200..399 =>
              (last.kind = "return" /\ is_ok(last.result))
        /\ ServerStatus >= 400 =>
              (last.kind = "raise" /\ last.exc.type \in YouVersionError)

\* C16: get_votd(day) returns Ok with the day's record when the server accepts
\* the day (day 1, day 365), and Err(ValidationError(field="day")) when the
\* server answers 400 for the out-of-range day 999.
C16_VotdLookup ==
    (FacadeCall /\ last.method = "get_votd" /\ ServerResponds) =>
        /\ (last.args.day \in {1, 365} /\ ServerStatus = 200
                /\ ValidBody("get_votd", last.server.response.body)) =>
              /\ last.kind = "return"
              /\ last.result =
                    Ok(ParsedRecord("get_votd", last.server.response.body.obj))
        /\ (last.args.day = 999 /\ ServerStatus = 400) =>
              /\ last.kind = "return"
              /\ is_err(last.result)
              /\ last.result.error.class = "ValidationError"
              /\ last.result.error.field = "day"

\* C17: get_organization(id) returns Err(NotFoundError) with resource
\* "organization" when the server answers 404, and "organization" is one of
\* the resource kinds NotFoundError accepts.
C17_OrganizationNotFound ==
    (FacadeCall /\ last.method = "get_organization" /\ ServerResponds
                /\ ServerStatus = 404) =>
        /\ last.kind = "return"
        /\ is_err(last.result)
        /\ last.result.error.class = "NotFoundError"
        /\ last.result.error.resource = "organization"
        /\ "organization" \in NotFoundResources

-----------------------------------------------------------------------------
(* Properties of the life cycle, checked under LifeSpec *)

\* the last operation is an endpoint method called on a facade instance
InstanceCall == last.instance >= 1 /\ FacadeCall /\ last.method \in Methods

\* the last operation is the exit of a with statement
ScopeExit == last.instance >= 1 /\ last.method \in {"__exit__", "__aexit__"}

\* C12: when a facade's scope is exited, the body having finished normally or
\* raised, the underlying HTTP client's resources are released, exactly once:
\* its close has run one time by the moment the scope exit returns.
C12_ScopeExitReleasesOnce ==
    ScopeExit =>
        /\ PoolOf(last.instance).is_closed
        /\ PoolOf(last.instance).teardowns = 1

C14_ClosedIsAbsorbing ==
    (InstanceCall /\ clients[last.instance].closed) =>
        /\ last.kind = "raise"
        /\ last.result = NoResult
        /\ last.wire.requests = 0

C14_Witness ==
    /\ InstanceCall
    /\ last.facade = "AsyncYouVersionClient"
    /\ last.was_closed
    /\ last.server.kind = "response" /\ last.server.response.status_code = 200
    /\ last.kind = "raise"
    /\ last.exc.type = "RuntimeError"
    /\ last.wire.requests = 0

\* C18: every endpoint call on an open facade issues exactly one request to
\* the server, whatever the outcome (a failed request, a 429, a page with a
\* next_page_token).
C18_OneRequestPerCall ==
    (InstanceCall /\ ~last.was_closed) =>
        last.wire.requests = 1

\* C19: every request an adapter sends carries X-YVP-App-Key equal to the
\* api_key given at construction and Accept: application/json.
C19_HeadersOnEveryRequest ==
    (last.instance >= 1 /\ last.wire.requests >= 1) =>
        /\ last.wire.headers["X-YVP-App-Key"] =
              adapters[clients[last.instance]._http]._api_key
        /\ last.wire.headers["Accept"] = "application/json"

C19_Witness ==
    /\ last.instance >= 1
    /\ last.facade = "SyncHTTPAdapter"
    /\ last.wire.requests = 1
    /\ last.wire.headers["X-YVP-App-Key"] = "key-b"
    /\ \E j \in 1..Len(clients) :
          /\ j # last.instance
          /\ adapters[clients[j]._http]._api_key = "key-a"

\* C20: no two facade instances share an adapter or an httpx client, and each
\* instance's connection pool is torn down exactly once, by its owner's close:
\* it has been torn down once if its owner has closed and not at all
\* otherwise, whatever the other instances did.
C20_PoolOwnedExclusively ==
    /\ \A i, j \in 1..Len(clients) :
          i # j =>
              /\ clients[i]._http # clients[j]._http
              /\ adapters[clients[i]._http]._client #
                    adapters[clients[j]._http]._client
    /\ \A i \in 1..Len(clients) :
          PoolOf(i).teardowns = (IF clients[i].closed THEN 1 ELSE 0)

-----------------------------------------------------------------------------
(* Properties of the values returned, checked under Spec *)

\* C21: on every paginated endpoint the data of the returned Ok has the
\* length and the element order of the server's data array, next_page_token
\* is null when the server omitted it and the server's string when present,
\* and total_count is likewise null or the server's integer.
C21_PagePreserved ==
    (FacadeCall /\ ServerResponds /\ IsPaginated(last.method)
                /\ last.kind = "return" /\ is_ok(last.result)) =>
        LET obj == last.server.response.body.obj
            page == last.result.value
        IN  /\ Len(page.data) = Len(obj.data)
            /\ \A i \in 1..Len(obj.data) :
                  /\ page.data[i].val = obj.data[i].val
                  /\ page.data[i].fields_set =
                        obj.data[i].keys \cap Fields(RecordClass(last.method))
            /\ page.next_page_token =
                  (IF "next_page_token" \in obj.keys THEN obj.next_page_token
                   ELSE None)
            /\ page.total_count =
                  (IF "total_count" \in obj.keys THEN obj.total_count ELSE None)

C21_Witness ==
    /\ FacadeCall /\ ServerResponds /\ last.method = "get_books"
    /\ last.kind = "return" /\ is_ok(last.result)
    /\ Len(last.server.response.body.obj.data) = 2
    /\ last.server.response.body.obj.data[1].val = 2
    /\ last.server.response.body.obj.data[2].val = 1
    /\ last.result.value.data[1].val = 2
    /\ last.result.value.data[2].val = 1
    /\ last.result.value.next_page_token = Some("tok")
    /\ last.result.value.total_count = Some(2)

\* C22: every Result is exactly one of Ok and Err (is_ok and is_err never
\* both true, never both false), an Ok holds only a value and an Err only an
\* error, and an attempt to reassign value or error raises and leaves the
\* Result as it was.
C22_ResultExclusiveAndFrozen ==
    [][/\ last'.result # NoResult =>
              /\ is_ok(last'.result) # is_err(last'.result)
              /\ is_ok(last'.result) => last'.result.error = NoError
              /\ is_err(last'.result) => last'.result.value = NoValue
       /\ (last'.facade \in {"Ok", "Err"} /\ last'.method = "__setattr__") =>
              /\ last'.kind = "raise"
              /\ last'.result = last.result]_vars

C22_Witness ==
    /\ last.facade = "Err" /\ last.method = "__setattr__"
    /\ last.kind = "raise" /\ last.exc.type = "FrozenInstanceError"
    /\ is_err(last.result)
    /\ last.result.error.class = "NotFoundError"

\* C23: every domain record received inside Ok is immutable: an attempt to
\* assign one of its fields is rejected and the record stays as the server's
\* JSON made it.
C23_RecordsImmutable ==
    (last.facade \in RecordClasses /\ last.server.kind = "response") =>
        /\ last.kind = "raise"
        /\ last.result = Ok(ParsedRecord(last.method, last.server.response.body.obj))

C25_CallsIndependent ==
    [][(last'.instance >= 1 /\ last'.facade \in Facades /\ last'.method \in Methods) =>
          /\ clients' = clients /\ adapters' = adapters /\ pools' = pools
          /\ ~PoolOf(last'.instance).is_closed =>
                LET outcome ==
                        IF last'.facade = "YouVersionClient"
                        THEN YouVersionClient_call(last'.method, last'.server, last'.args)
                        ELSE AsyncYouVersionClient_call(last'.method, last'.server,
                                                        last'.args)
                IN  /\ last'.kind = outcome.kind /\ last'.exc = outcome.exc
                    /\ last'.result = outcome.result
                    /\ last'.request = outcome.request]_vars

C25_Witness ==
    /\ InstanceCall /\ last.facade = "AsyncYouVersionClient"
    /\ last.kind = "raise" /\ last.exc.type = "NetworkError"
    /\ ~PoolOf(last.instance).is_closed
    /\ PoolOf(last.instance).headers =
          DefaultHeaders(adapters[clients[last.instance]._http]._api_key)
    /\ PoolOf(last.instance).timeout = 30
    /\ Len(clients) = 2

\* C26: an endpoint method returns Ok only when the response status is a
\* success status (2xx).
C26_OkOnlyOnSuccess ==
    (FacadeCall /\ ServerResponds /\ last.kind = "return" /\ is_ok(last.result)) =>
        ServerStatus \in 200..299

\* C27: every exception that escapes an endpoint method of either facade is
\* one of the YouVersionError subclasses, for every reply and every transport
\* failure.
C27_OnlyYouVersionErrorsEscape ==
    (FacadeCall /\ last.method \in Methods /\ last.kind = "raise") =>
        last.exc.type \in YouVersionError

\* C28: on a status the endpoint maps to a domain error (404 on the lookups,
\* 400 on get_versions and get_passage) the call returns the Err that the
\* status and the caller's arguments determine, whatever the body is: empty,
\* not JSON, or JSON of any shape.
C28_MappedStatusIgnoresBody ==
    (FacadeCall /\ ServerResponds
        /\ \/ last.method \in MethodsWith404 /\ ServerStatus = 404
           \/ last.method \in {"get_versions", "get_passage"} /\ ServerStatus = 400) =>
        /\ last.kind = "return"
        /\ is_err(last.result)
        /\ ServerStatus = 404 =>
              /\ last.result.error.class = "NotFoundError"
              /\ last.result.error.resource = DocumentedResource(last.method)
              /\ last.result.error.identifier = BuiltIdentifier(last.method, last.args)
        /\ ServerStatus = 400 =>
              /\ last.result.error.class = "ValidationError"
              /\ last.result.error.field =
                    (IF last.method = "get_versions" THEN "language_ranges" ELSE "usfm")

\* C29: when a facade's scope is left because the body raised, the scope
\* exit closes the client and the body's exception then reaches the caller
\* unchanged, on both facades.
C29_ScopeExitPropagates ==
    (ScopeExit /\ last.scope = "error") =>
        /\ PoolOf(last.instance).is_closed
        /\ last.kind = "raise"
        /\ last.exc = Exc("Exception", "raised in the body")

\* C30: for each of the nine Bible endpoints and every reply, BibleAPIMixin's
\* method builds the same path and query and produces the same Ok or Err as
\* the method of that name of YouVersionClient and of AsyncYouVersionClient.
C30_MixinAgrees ==
    last.facade = "BibleAPIMixin" =>
        \A other \in {YouVersionClient_call(last.method, last.server, last.args),
                       AsyncYouVersionClient_call(last.method, last.server, last.args)} :
            /\ last.request = other.request
            /\ last.kind = other.kind
            /\ last.result = other.result

====
